---------------------------- MODULE Spec2Model ----------------------------
(***************************************************************************)
(* Model of the file-search extension's batch executor (cmd.processBatch)  *)
(* and of the long-running-operation polling loops of the gemini client    *)
(* (Client.UploadFile, Client.ImportFile).                                 *)
(*                                                                         *)
(* BatchSpec  : one run of processBatch, one process per goroutine.        *)
(* PollerSpec : one run of UploadFile (store upload) or ImportFile.        *)
(*                                                                         *)
(* The later sections add the resolvers, the completion cache and the      *)
(* completer, the upload command, GetOperation and the tool server, each   *)
(* with a specification of its own, and three compositions: BatchFairSpec  *)
(* (processBatch under a fair scheduler), LockingSpec (the code that takes *)
(* locks) and UploadBatchSpec (the batch of the upload command, whose      *)
(* perItemOp is the polling call).                                         *)
(***************************************************************************)
EXTENDS Integers, Sequences, FiniteSets, TLC

(***************************************************************************)
(* Bounds of the model.                                                    *)
(***************************************************************************)
\* Longest input list of a generally chosen batch.
MaxFiles == 2
\* Largest opts.Concurrency of a generally chosen batch (drawn from -1 on:
\* -1 and 0 ask for the default).
MaxConcurrency == 2
\* Largest number of status polls the remote service is asked for in one run.
MaxPolls == 3

(***************************************************************************)
(* Program constants.                                                      *)
(***************************************************************************)
\* "opts.Concurrency = 5 // Default concurrency"
DefaultConcurrency == 5

\* files of TestProcessBatch_ContextCancellation; also the item names of the
\* generally chosen batches.
CancellationTestFiles == <<"f1", "f2", "f3", "f4", "f5">>

\* The error values a perItemOp returns: none, a failure of its own, ctx.Err().
NoError == "nil"
ErrFailed == "failed"
ErrCanceled == "context canceled"

\* Transport errors of the remote calls of the poller.
TransportErrors == {"timeout", "unavailable"}

VARIABLES
    \* ---- processBatch: arguments ----
    files,          \* files []string
    Concurrency,    \* opts.Concurrency (overwritten by the coercion)
    Quiet,          \* opts.Quiet
    OnProgress,     \* opts.OnProgress: "nil", "count" (TestProcessBatch's callback),
                    \* "cancelAt2" (the callback of the cancellation test)
    processor,      \* "any": an arbitrary perItemOp; "slow": slowProcessor of the test
    givenConcurrency, \* history: opts.Concurrency as passed by the caller
    \* ---- processBatch: shared state ----
    cancelled,      \* ctx.Done() is closed
    pc,             \* position of the calling goroutine in processBatch
    fileIdx,        \* index of the range loop over files
    inProgress,     \* number of tokens in the inProgress channel
    wg,             \* counter of the WaitGroup
    mu,             \* holder of mu (0: unlocked)
    processedMu,    \* holder of processedMu (0: unlocked)
    processedCount,
    Succeeded,      \* result.Succeeded
    Failed,         \* result.Failed
    Total,          \* result.Total
    \* ---- processBatch: one goroutine per item ----
    wpc,            \* position of goroutine i
    err,            \* its local err
    current,        \* its local current
    \* ---- processBatch: observations ----
    progressLog,    \* the OnProgress invocations, in the order they were made:
                    \* the four arguments and the goroutine that made the call
    \* ---- poller ----
    opKind,         \* "upload" (UploadFile with a store) or "import" (ImportFile)
    pollerQuiet,    \* opts.Quiet of the call
    ppc,            \* position in UploadFile / ImportFile
    op,             \* the latest operation snapshot: [Done, Failed]
    opErr,          \* err of the latest remote call
    retErr,         \* the error the call returned
    polls,          \* number of Get...Operation calls issued
    pollsAfterDone, \* history: polls issued after a done snapshot was observed
    printed,        \* number of progress lines written
    responses,      \* history: what the service answered to each remote call
    \* ---- resolver: arguments and the remote service ----
    resolveKind,    \* "store", "file", "document": which Resolve...Name is called
    nameOrID,       \* nameOrID (docNameOrID of ResolveDocumentName)
    storeNameOrID,  \* storeNameOrID of ResolveDocumentName
    remoteStores,   \* the pages the service lists for FileSearchStores
    remoteFiles,    \* the pages the service lists for Files
    remoteDocuments, \* store name -> the pages the service lists for its Documents
    \* ---- resolver: one call ----
    rpc,            \* position in the call
    listing,        \* which listing is being fetched: "stores", "files", "documents"
    pageIdx,        \* number of pages of it fetched so far
    items,          \* the slice the listing has accumulated
    storeID,        \* storeID of ResolveDocumentName
    remoteCalls,    \* history: the remote calls issued, in order
    resolved,       \* the string the call returned
    resolveErr,     \* the error the call returned
    \* ---- cache: the Cache object and the clock ----
    ttl,            \* c.ttl
    givenTTL,       \* history: the ttl the cache was asked for
    entries,        \* c.entries: key -> [Values, ExpiresAt]
    now,            \* what time.Now() reads
    \* ---- cache: concurrent callers ----
    cacheMu,        \* c.mu: [writer (0: none), readers]
    cpc,            \* position of caller g in its call
    call,           \* its call: [op, key, values]
    ret,            \* what its Get is returning: [values, found, at]
    calls,          \* number of calls started
    lastSet,        \* history: key -> the Set that last took the lock for it
    \* ---- completer ----
    enabled,        \* c.enabled
    clientInit,     \* c.clientInit
    cmpc,           \* position in the lookup method being run
    method,         \* the lookup method being run
    storeRef,       \* storeRef of GetDocumentNames
    result,         \* the slice the method is returning
    outcome,        \* history: the path the method took
    newClientCalls, \* history: number of gemini.NewClient calls
    lookups,        \* history: number of remote lookups issued
    completions,    \* number of lookup methods called
    \* ---- batch commands: RunE of `file upload` and `store import-file` ----
    command,        \* which command runs
    args,           \* its positional arguments
    quiet,          \* the global --quiet flag
    outputFormat,   \* the global --format flag
    batchResult,    \* what processBatch returned
    cmdpc,          \* position in RunE
    cmdErr,         \* the error RunE returned
    output,         \* the sections RunE wrote to stdout after the batch
    \* ---- GetOperation ----
    operationName,  \* operationName
    operationType,  \* operationType
    gopc,           \* position in GetOperation
    opCalls,        \* history: the remote calls issued, in order, with the
                    \* error each returned
    gopStatus,      \* the kind of the status returned ("none": nil)
    gopErr,         \* the error returned
    \* ---- MCP server: NewServer ----
    enabledTools,   \* enabledTools []string
    tools,          \* the names in the server's tool map
    spc             \* the registration block NewServer is at

batchVars == <<files, Concurrency, Quiet, OnProgress, processor, givenConcurrency,
               cancelled, pc, fileIdx, inProgress, wg, mu, processedMu,
               processedCount, Succeeded, Failed, Total, wpc, err, current,
               progressLog>>

pollerVars == <<opKind, pollerQuiet, ppc, op, opErr, retErr, polls,
                pollsAfterDone, printed, responses>>

resolverVars == <<resolveKind, nameOrID, storeNameOrID, remoteStores,
                  remoteFiles, remoteDocuments, rpc, listing, pageIdx, items,
                  storeID, remoteCalls, resolved, resolveErr>>

\* The Cache object with the clock, and the callers of CacheSpec.
cacheVars == <<ttl, givenTTL, entries, now>>
callerVars == <<cacheMu, cpc, call, ret, calls, lastSet>>

completerVars == <<enabled, clientInit, cmpc, method, storeRef, result,
                   outcome, newClientCalls, lookups, completions>>

commandVars == <<command, args, quiet, outputFormat, batchResult, cmdpc,
                 cmdErr, output>>

operationVars == <<operationName, operationType, gopc, opCalls, gopStatus,
                   gopErr>>

serverVars == <<enabledTools, tools, spc>>

vars == <<batchVars, pollerVars, resolverVars, cacheVars, callerVars,
          completerVars, commandVars, operationVars, serverVars>>

\* What the steps of one component leave alone.
notBatchVars == <<pollerVars, resolverVars, cacheVars, callerVars,
                  completerVars, commandVars, operationVars, serverVars>>
notPollerVars == <<batchVars, resolverVars, cacheVars, callerVars,
                   completerVars, commandVars, operationVars, serverVars>>
notBatchNorPollerVars == <<resolverVars, cacheVars, callerVars, completerVars,
                           commandVars, operationVars, serverVars>>
notResolverVars == <<batchVars, pollerVars, cacheVars, callerVars,
                     completerVars, commandVars, operationVars, serverVars>>
notCacheVars == <<batchVars, pollerVars, resolverVars, completerVars,
                  commandVars, operationVars, serverVars>>
notCompleterVars == <<batchVars, pollerVars, resolverVars, callerVars,
                      commandVars, operationVars, serverVars>>
\* The same without the mutex of the cache, for the steps that call the cache.
notCompleterNorMuVars == <<batchVars, pollerVars, resolverVars, cpc, call, ret,
                           calls, lastSet, commandVars, operationVars,
                           serverVars>>
notCommandVars == <<batchVars, pollerVars, resolverVars, cacheVars,
                    callerVars, completerVars, operationVars, serverVars>>
notOperationVars == <<batchVars, pollerVars, resolverVars, cacheVars,
                      callerVars, completerVars, commandVars, serverVars>>
notServerVars == <<batchVars, pollerVars, resolverVars, cacheVars,
                   callerVars, completerVars, commandVars, operationVars>>

(***************************************************************************)
(* Helpers.                                                                *)
(***************************************************************************)
\* The input lists of length 0..n, up to a renaming of the items: processBatch
\* reads an item only to pass it on and to use it as a key of result.Failed, so
\* it tells two lists apart only by which positions hold equal items.  Each
\* such pattern is drawn once, its items named in order of first occurrence
\* (f1; f1 f1, f1 f2; f1 f1 f1, f1 f1 f2, f1 f2 f1, f1 f2 f2, f1 f2 f3; ...).
FirstOccurrenceOrder(g) ==
    \A i \in DOMAIN g :
        \/ g[i] = 1
        \/ \E j \in 1..(i - 1) : g[j] >= g[i] - 1

FileLists(n) ==
    UNION {{[i \in 1..k |-> CancellationTestFiles[g[i]]] :
                g \in {h \in [1..k -> 1..k] : FirstOccurrenceOrder(h)}} :
           k \in 0..n}

Range(s) == {s[i] : i \in DOMAIN s}

Workers == DOMAIN files

(***************************************************************************)
(* processBatch: the pieces of its code.                                   *)
(***************************************************************************)
\* "if opts.Concurrency <= 0 { opts.Concurrency = 5 }"
CoerceConcurrency(c) == IF c <= 0 THEN DefaultConcurrency ELSE c

\* A send that proceeds on a full channel: the slot count is off by one.
SlotAvailableOffByOne == inProgress <= Concurrency

\* "inProgress <- struct{}{}" can proceed: the channel, of capacity
\* opts.Concurrency, is not full.
SlotAvailable == inProgress < Concurrency

\* What "err := processor(ctx, f)" can yield.  An arbitrary perItemOp succeeds
\* or fails; slowProcessor returns ctx.Err() once the context is cancelled
\* and nil otherwise.
ProcessorResults ==
    IF processor = "slow"
    THEN {IF cancelled THEN ErrCanceled ELSE NoError}
    ELSE {NoError, ErrFailed}

\* The quiet test inverted.
ProgressEnabledQuietInverted == OnProgress # "nil" /\ Quiet

\* "if opts.OnProgress != nil && !opts.Quiet"
ProgressEnabled == OnProgress # "nil" /\ ~Quiet

\* An increment that is lost once the counter is non-zero, as when two
\* goroutines read the same value and both write it back incremented.
IncrementedCountLostUpdate == IF processedCount = 0 THEN 1 ELSE processedCount

\* "processedCount++"
IncrementedCount == processedCount + 1

\* An insert into a map that is made anew: the earlier failures are dropped.
FailedWithFreshMap(f, e) == [k \in {f} |-> e]

\* "result.Failed[f] = err": a map insert, which overwrites the entry of an
\* equal key.
FailedWith(f, e) ==
    [k \in (DOMAIN Failed) \cup {f} |-> IF k = f THEN e ELSE Failed[k]]

\* "result.Succeeded = append(result.Succeeded, f)"
SucceededWith(f) == Append(Succeeded, f)

\* The effect of the OnProgress callback itself: the callback of the
\* cancellation test calls cancel() when current == 2.
CallbackCancels(cur) == OnProgress = "cancelAt2" /\ cur = 2

EmptyFailed == [k \in {} |-> NoError]

\* A test for the empty list that never holds.
EmptyInputNever == FALSE

\* "if len(files) == 0 { return result }"
EmptyInput == Len(files) = 0

(***************************************************************************)
(* processBatch: initial states.  A generally chosen batch runs under      *)
(* context.Background() with an arbitrary perItemOp (whose outcomes already *)
(* include whatever a cancellation could make it return); the batches of    *)
(* TestProcessBatch_ContextCancellation run slowProcessor over five files   *)
(* with concurrency 1, with and without the cancelling callback.            *)
(***************************************************************************)
BatchArguments ==
    \/ /\ files \in FileLists(MaxFiles)
       /\ givenConcurrency \in (-1)..MaxConcurrency
       /\ Quiet \in BOOLEAN
       /\ OnProgress \in {"nil", "count"}
       /\ processor = "any"
    \/ /\ files = CancellationTestFiles
       /\ givenConcurrency = 1
       /\ Quiet = FALSE
       /\ OnProgress \in {"count", "cancelAt2"}
       /\ processor = "slow"

\* processBatch is entered: nothing is dispatched, counted or recorded yet.
BatchStart ==
    /\ Concurrency = givenConcurrency
    /\ cancelled = FALSE
    /\ pc = "entry"
    /\ fileIdx = 1
    /\ inProgress = 0
    /\ wg = 0
    /\ mu = 0
    /\ processedMu = 0
    /\ processedCount = 0
    /\ Succeeded = <<>>
    /\ Failed = EmptyFailed
    /\ Total = 0
    /\ wpc = [i \in DOMAIN files |-> "none"]
    /\ err = [i \in DOMAIN files |-> NoError]
    /\ current = [i \in DOMAIN files |-> 0]
    /\ progressLog = <<>>

BatchInit ==
    /\ BatchArguments
    /\ BatchStart

\* No batch is run: the state of the batch variables under PollerSpec.
BatchIdle ==
    /\ files = <<>>
    /\ givenConcurrency = 0
    /\ Concurrency = 0
    /\ Quiet = FALSE
    /\ OnProgress = "nil"
    /\ processor = "any"
    /\ cancelled = FALSE
    /\ pc = "idle"
    /\ fileIdx = 1
    /\ inProgress = 0
    /\ wg = 0
    /\ mu = 0
    /\ processedMu = 0
    /\ processedCount = 0
    /\ Succeeded = <<>>
    /\ Failed = EmptyFailed
    /\ Total = 0
    /\ wpc = <<>>
    /\ err = <<>>
    /\ current = <<>>
    /\ progressLog = <<>>

(***************************************************************************)
(* processBatch: the calling goroutine.                                    *)
(***************************************************************************)
\* Lines 27-50: the result is created; an empty list returns at once;
\* otherwise the concurrency is coerced and the loop is entered.
Entry ==
    /\ pc = "entry"
    /\ Total' = Len(files)
    /\ IF EmptyInput
       THEN /\ pc' = "returned"
            /\ UNCHANGED Concurrency
       ELSE /\ pc' = "acquire"
            /\ Concurrency' = CoerceConcurrency(Concurrency)
    /\ UNCHANGED <<files, Quiet, OnProgress, processor, givenConcurrency,
                   cancelled, fileIdx, inProgress, wg, mu, processedMu,
                   processedCount, Succeeded, Failed, wpc, err, current,
                   progressLog>>
    /\ UNCHANGED notBatchVars

\* Line 53: "inProgress <- struct{}{}" blocks while the channel is full.
AcquireSlot ==
    /\ pc = "acquire"
    /\ SlotAvailable
    /\ inProgress' = inProgress + 1
    /\ pc' = "spawn"
    /\ UNCHANGED <<files, Concurrency, Quiet, OnProgress, processor,
                   givenConcurrency, cancelled, fileIdx, wg, mu, processedMu,
                   processedCount, Succeeded, Failed, Total, wpc, err, current,
                   progressLog>>
    /\ UNCHANGED notBatchVars

\* Lines 55-56, 62, 82: wg.Add(1) and "go func(f)", whose first statement is
\* the call "processor(ctx, f)"; the loop moves to the next file, and past the
\* last one to wg.Wait().
Spawn ==
    /\ pc = "spawn"
    /\ wg' = wg + 1
    /\ wpc' = [wpc EXCEPT ![fileIdx] = "processing"]
    /\ fileIdx' = fileIdx + 1
    /\ pc' = IF fileIdx = Len(files) THEN "wait" ELSE "acquire"
    /\ UNCHANGED <<files, Concurrency, Quiet, OnProgress, processor,
                   givenConcurrency, cancelled, inProgress, mu, processedMu,
                   processedCount, Succeeded, Failed, Total, err, current,
                   progressLog>>
    /\ UNCHANGED notBatchVars

\* A wait that does not wait.
WaitGroupDoneNoWait == TRUE

\* Line 85: wg.Wait() returns when the counter of the WaitGroup is zero.
WaitGroupDone == wg = 0

\* Lines 85-86: wg.Wait() returns; result is returned.
WaitReturn ==
    /\ pc = "wait"
    /\ WaitGroupDone
    /\ pc' = "returned"
    /\ UNCHANGED <<files, Concurrency, Quiet, OnProgress, processor,
                   givenConcurrency, cancelled, fileIdx, inProgress, wg, mu,
                   processedMu, processedCount, Succeeded, Failed, Total, wpc,
                   err, current, progressLog>>
    /\ UNCHANGED notBatchVars

(***************************************************************************)
(* processBatch: the goroutine of item i (lines 56-82).                    *)
(***************************************************************************)
\* Line 62: "err := processor(ctx, f)" returns.
ProcessorReturns(i) ==
    /\ wpc[i] = "processing"
    /\ \E e \in ProcessorResults : err' = [err EXCEPT ![i] = e]
    /\ wpc' = [wpc EXCEPT ![i] = "lockMu"]
    /\ UNCHANGED <<files, Concurrency, Quiet, OnProgress, processor,
                   givenConcurrency, cancelled, pc, fileIdx, inProgress, wg, mu,
                   processedMu, processedCount, Succeeded, Failed, Total,
                   current, progressLog>>
    /\ UNCHANGED notBatchVars

\* Line 64: mu.Lock()
LockMu(i) ==
    /\ wpc[i] = "lockMu"
    /\ mu = 0
    /\ mu' = i
    /\ wpc' = [wpc EXCEPT ![i] = "lockProcessedMu"]
    /\ UNCHANGED <<files, Concurrency, Quiet, OnProgress, processor,
                   givenConcurrency, cancelled, pc, fileIdx, inProgress, wg,
                   processedMu, processedCount, Succeeded, Failed, Total, err,
                   current, progressLog>>
    /\ UNCHANGED notBatchVars

\* Lines 65-67: processedMu.Lock(); processedCount++; current := processedCount
LockProcessedMuAndCount(i) ==
    /\ wpc[i] = "lockProcessedMu"
    /\ processedMu = 0
    /\ processedMu' = i
    /\ processedCount' = IncrementedCount
    /\ current' = [current EXCEPT ![i] = processedCount']
    /\ wpc' = [wpc EXCEPT ![i] = "unlockMu"]
    /\ UNCHANGED <<files, Concurrency, Quiet, OnProgress, processor,
                   givenConcurrency, cancelled, pc, fileIdx, inProgress, wg, mu,
                   Succeeded, Failed, Total, err, progressLog>>
    /\ UNCHANGED notBatchVars

\* Line 68: mu.Unlock()
UnlockMu(i) ==
    /\ wpc[i] = "unlockMu"
    /\ mu' = 0
    /\ wpc' = [wpc EXCEPT ![i] = "unlockProcessedMu"]
    /\ UNCHANGED <<files, Concurrency, Quiet, OnProgress, processor,
                   givenConcurrency, cancelled, pc, fileIdx, inProgress, wg,
                   processedMu, processedCount, Succeeded, Failed, Total, err,
                   current, progressLog>>
    /\ UNCHANGED notBatchVars

\* Line 69: processedMu.Unlock()
UnlockProcessedMu(i) ==
    /\ wpc[i] = "unlockProcessedMu"
    /\ processedMu' = 0
    /\ wpc' = [wpc EXCEPT ![i] = "progress"]
    /\ UNCHANGED <<files, Concurrency, Quiet, OnProgress, processor,
                   givenConcurrency, cancelled, pc, fileIdx, inProgress, wg, mu,
                   processedCount, Succeeded, Failed, Total, err, current,
                   progressLog>>
    /\ UNCHANGED notBatchVars

\* Lines 71-72: the callback is invoked with (current, result.Total, f, err).
CallOnProgress(i) ==
    /\ wpc[i] = "progress"
    /\ ProgressEnabled
    /\ progressLog' = Append(progressLog,
                             [current |-> current[i], total |-> Total,
                              file |-> files[i], err |-> err[i], worker |-> i])
    /\ cancelled' = (cancelled \/ CallbackCancels(current[i]))
    /\ wpc' = [wpc EXCEPT ![i] = "inCallback"]
    /\ UNCHANGED <<files, Concurrency, Quiet, OnProgress, processor,
                   givenConcurrency, pc, fileIdx, inProgress, wg, mu,
                   processedMu, processedCount, Succeeded, Failed, Total, err,
                   current>>
    /\ UNCHANGED notBatchVars

\* Line 71: no callback, or quiet: nothing is invoked.
SkipOnProgress(i) ==
    /\ wpc[i] = "progress"
    /\ ~ProgressEnabled
    /\ wpc' = [wpc EXCEPT ![i] = "lockResult"]
    /\ UNCHANGED <<files, Concurrency, Quiet, OnProgress, processor,
                   givenConcurrency, cancelled, pc, fileIdx, inProgress, wg, mu,
                   processedMu, processedCount, Succeeded, Failed, Total, err,
                   current, progressLog>>
    /\ UNCHANGED notBatchVars

\* Line 72: the callback returns.
OnProgressReturns(i) ==
    /\ wpc[i] = "inCallback"
    /\ wpc' = [wpc EXCEPT ![i] = "lockResult"]
    /\ UNCHANGED <<files, Concurrency, Quiet, OnProgress, processor,
                   givenConcurrency, cancelled, pc, fileIdx, inProgress, wg, mu,
                   processedMu, processedCount, Succeeded, Failed, Total, err,
                   current, progressLog>>
    /\ UNCHANGED notBatchVars

\* Lines 75-80: mu.Lock(); the outcome is recorded.
LockAndRecord(i) ==
    /\ wpc[i] = "lockResult"
    /\ mu = 0
    /\ mu' = i
    /\ IF err[i] # NoError
       THEN /\ Failed' = FailedWith(files[i], err[i])
            /\ UNCHANGED Succeeded
       ELSE /\ Succeeded' = SucceededWith(files[i])
            /\ UNCHANGED Failed
    /\ wpc' = [wpc EXCEPT ![i] = "unlockResult"]
    /\ UNCHANGED <<files, Concurrency, Quiet, OnProgress, processor,
                   givenConcurrency, cancelled, pc, fileIdx, inProgress, wg,
                   processedMu, processedCount, Total, err, current,
                   progressLog>>
    /\ UNCHANGED notBatchVars

\* Line 81: mu.Unlock()
UnlockResult(i) ==
    /\ wpc[i] = "unlockResult"
    /\ mu' = 0
    /\ wpc' = [wpc EXCEPT ![i] = "release"]
    /\ UNCHANGED <<files, Concurrency, Quiet, OnProgress, processor,
                   givenConcurrency, cancelled, pc, fileIdx, inProgress, wg,
                   processedMu, processedCount, Succeeded, Failed, Total, err,
                   current, progressLog>>
    /\ UNCHANGED notBatchVars

\* A goroutine that returns without giving its slot back.
SlotsAfterNoRelease == inProgress

\* The semaphore after the receive "<-inProgress".
SlotsAfterRelease == inProgress - 1

\* Line 58 (deferred): "<-inProgress" releases the slot.
ReleaseSlot(i) ==
    /\ wpc[i] = "release"
    /\ inProgress' = SlotsAfterRelease
    /\ wpc' = [wpc EXCEPT ![i] = "wgDone"]
    /\ UNCHANGED <<files, Concurrency, Quiet, OnProgress, processor,
                   givenConcurrency, cancelled, pc, fileIdx, wg, mu, processedMu,
                   processedCount, Succeeded, Failed, Total, err, current,
                   progressLog>>
    /\ UNCHANGED notBatchVars

\* Line 59 (deferred): wg.Done()
WgDone(i) ==
    /\ wpc[i] = "wgDone"
    /\ wg' = wg - 1
    /\ wpc' = [wpc EXCEPT ![i] = "finished"]
    /\ UNCHANGED <<files, Concurrency, Quiet, OnProgress, processor,
                   givenConcurrency, cancelled, pc, fileIdx, inProgress, mu,
                   processedMu, processedCount, Succeeded, Failed, Total, err,
                   current, progressLog>>
    /\ UNCHANGED notBatchVars

(***************************************************************************)
(* The poller at rest: the state of its variables under BatchSpec.         *)
(***************************************************************************)
PollerIdle ==
    /\ opKind = "upload"
    /\ pollerQuiet = TRUE
    /\ ppc = "idle"
    /\ op = [Done |-> FALSE, Failed |-> FALSE]
    /\ opErr = NoError
    /\ retErr = NoError
    /\ polls = 0
    /\ pollsAfterDone = 0
    /\ printed = 0
    /\ responses = <<>>

(***************************************************************************)
(* BatchSpec: one run of processBatch.                                     *)
(***************************************************************************)
BatchNext ==
    \/ Entry
    \/ AcquireSlot
    \/ Spawn
    \/ WaitReturn
    \/ \E i \in Workers : ProcessorReturns(i)
    \/ \E i \in Workers : LockMu(i)
    \/ \E i \in Workers : LockProcessedMuAndCount(i)
    \/ \E i \in Workers : UnlockMu(i)
    \/ \E i \in Workers : UnlockProcessedMu(i)
    \/ \E i \in Workers : CallOnProgress(i)
    \/ \E i \in Workers : SkipOnProgress(i)
    \/ \E i \in Workers : OnProgressReturns(i)
    \/ \E i \in Workers : LockAndRecord(i)
    \/ \E i \in Workers : UnlockResult(i)
    \/ \E i \in Workers : ReleaseSlot(i)
    \/ \E i \in Workers : WgDone(i)

(***************************************************************************)
(* The polling loops of Client.UploadFile (upload into a store) and        *)
(* Client.ImportFile.  The remote service answers every call with an       *)
(* error or with a snapshot of the operation.                              *)
(***************************************************************************)
\* The operation snapshots the remote service returns: pending, done, or done
\* with its Error set.
Snapshots == {[Done |-> FALSE, Failed |-> FALSE],
              [Done |-> TRUE, Failed |-> FALSE],
              [Done |-> TRUE, Failed |-> TRUE]}

\* What a remote call returns: "op, err := ...": the error and the snapshot
\* (the snapshot the caller holds stays where the call fails).
Answer(e, snap) == [err |-> e, op |-> snap]

\* A loop that polls whatever the snapshot says.
LoopConditionAlways == TRUE

\* A loop that a quiet call never enters.
LoopConditionUnlessQuiet == ~op.Done /\ ~pollerQuiet

\* A loop with a local bound on its polls.
LoopConditionBounded == ~op.Done /\ polls < 1

\* "for !op.Done": the loop body is entered.
LoopCondition == ~op.Done

\* What the call returns once the loop has ended: "return nil, nil" in
\* UploadFile, "return nil" in ImportFile.
ErrorAfterLoop == NoError

\* The number of lines printed between the initiating call and the loop:
\* UploadFile prints "Indexing..."; ImportFile prints the operation ID and
\* "Importing...".
LinesAfterStart == IF opKind = "upload" THEN 1 ELSE 2

\* Lines printed by a call that is not quiet.
Printed(n) == IF pollerQuiet THEN printed ELSE printed + n

PollerInit ==
    /\ opKind \in {"upload", "import"}
    /\ pollerQuiet \in BOOLEAN
    /\ ppc = "start"
    /\ op = [Done |-> FALSE, Failed |-> FALSE]
    /\ opErr = NoError
    /\ retErr = NoError
    /\ polls = 0
    /\ pollsAfterDone = 0
    /\ printed = 0
    /\ responses = <<>>

\* UploadFile 262-299 / ImportFile 350-357: the initiating remote call fails
\* and its error is returned.
StartFails ==
    /\ ppc = "start"
    /\ \E e \in TransportErrors :
          /\ opErr' = e
          /\ retErr' = e
          /\ responses' = Append(responses, Answer(e, op))
    /\ printed' = Printed(1)
    /\ ppc' = "returned"
    /\ UNCHANGED <<opKind, pollerQuiet, op, polls, pollsAfterDone>>
    /\ UNCHANGED notPollerVars

\* UploadFile 296-305 / ImportFile 354-364: the initiating call returns the
\* first snapshot.
StartSucceeds ==
    /\ ppc = "start"
    /\ \E snap \in Snapshots : op' = snap
    /\ opErr' = NoError
    /\ responses' = Append(responses, Answer(NoError, op'))
    /\ printed' = Printed(1 + LinesAfterStart)
    /\ ppc' = "loop"
    /\ UNCHANGED <<opKind, pollerQuiet, retErr, polls, pollsAfterDone>>
    /\ UNCHANGED notPollerVars

\* UploadFile 306-310 / ImportFile 365-369: the loop condition holds; the
\* elapsed time is printed and the call sleeps.
LoopContinue ==
    /\ ppc = "loop"
    /\ LoopCondition
    /\ printed' = Printed(1)
    /\ ppc' = "sleep"
    /\ UNCHANGED <<opKind, pollerQuiet, op, opErr, retErr, polls,
                   pollsAfterDone, responses>>
    /\ UNCHANGED notPollerVars

\* UploadFile 306, 321-324 / ImportFile 365, 380-383: the loop has ended.
LoopExit ==
    /\ ppc = "loop"
    /\ ~LoopCondition
    /\ printed' = Printed(1)
    /\ retErr' = ErrorAfterLoop
    /\ ppc' = "returned"
    /\ UNCHANGED <<opKind, pollerQuiet, op, opErr, polls, pollsAfterDone,
                   responses>>
    /\ UNCHANGED notPollerVars

\* UploadFile 312-319 / ImportFile 371-378: after the sleep the status is
\* fetched; the fetch fails and its error is returned.
PollFails ==
    /\ ppc = "sleep"
    /\ polls < MaxPolls
    /\ polls' = polls + 1
    /\ pollsAfterDone' = IF op.Done THEN pollsAfterDone + 1 ELSE pollsAfterDone
    /\ \E e \in TransportErrors :
          /\ opErr' = e
          /\ retErr' = e
          /\ responses' = Append(responses, Answer(e, op))
    /\ printed' = Printed(1)
    /\ ppc' = "returned"
    /\ UNCHANGED <<opKind, pollerQuiet, op>>
    /\ UNCHANGED notPollerVars

\* UploadFile 312-313 / ImportFile 371-372: the fetch returns a new snapshot.
PollSucceeds ==
    /\ ppc = "sleep"
    /\ polls < MaxPolls
    /\ polls' = polls + 1
    /\ pollsAfterDone' = IF op.Done THEN pollsAfterDone + 1 ELSE pollsAfterDone
    /\ \E snap \in Snapshots : op' = snap
    /\ opErr' = NoError
    /\ responses' = Append(responses, Answer(NoError, op'))
    /\ ppc' = "loop"
    /\ UNCHANGED <<opKind, pollerQuiet, retErr, printed>>
    /\ UNCHANGED notPollerVars

PollerNext ==
    \/ StartFails
    \/ StartSucceeds
    \/ LoopContinue
    \/ LoopExit
    \/ PollFails
    \/ PollSucceeds

(***************************************************************************)
(* The batch of the upload command (cmd/file.go 151-188): the perItemOp of *)
(* processBatch is a call of Client.UploadFile into a store.               *)
(***************************************************************************)
\* cmd/file.go 161-170: the goroutine of item i calls client.UploadFile with
\* a store name and with Quiet forced on.
UploadCalled(i) ==
    /\ wpc[i] = "processing"
    /\ ppc = "idle"
    /\ opKind' = "upload"
    /\ pollerQuiet' = TRUE
    /\ ppc' = "start"
    /\ op' = [Done |-> FALSE, Failed |-> FALSE]
    /\ opErr' = NoError
    /\ retErr' = NoError
    /\ polls' = 0
    /\ pollsAfterDone' = 0
    /\ printed' = 0
    /\ responses' = <<>>
    /\ UNCHANGED batchVars
    /\ UNCHANGED notBatchNorPollerVars

\* cmd/file.go 170-171: "_, err := client.UploadFile(ctx, path, opts);
\* return err": the perItemOp returns what the call returned.
UploadReturns(i) ==
    /\ wpc[i] = "processing"
    /\ ppc = "returned"
    /\ err' = [err EXCEPT ![i] = retErr]
    /\ wpc' = [wpc EXCEPT ![i] = "lockMu"]
    /\ ppc' = "idle"
    /\ UNCHANGED <<files, Concurrency, Quiet, OnProgress, processor,
                   givenConcurrency, cancelled, pc, fileIdx, inProgress, wg, mu,
                   processedMu, processedCount, Succeeded, Failed, Total,
                   current, progressLog>>
    /\ UNCHANGED <<opKind, pollerQuiet, op, opErr, retErr, polls,
                   pollsAfterDone, printed, responses>>
    /\ UNCHANGED notBatchNorPollerVars

\* processBatch with its perItemOp spelled out.
UploadBatchNext ==
    \/ Entry
    \/ AcquireSlot
    \/ Spawn
    \/ WaitReturn
    \/ \E i \in Workers : UploadCalled(i)
    \/ StartFails
    \/ StartSucceeds
    \/ LoopContinue
    \/ LoopExit
    \/ PollFails
    \/ PollSucceeds
    \/ \E i \in Workers : UploadReturns(i)
    \/ \E i \in Workers : LockMu(i)
    \/ \E i \in Workers : LockProcessedMuAndCount(i)
    \/ \E i \in Workers : UnlockMu(i)
    \/ \E i \in Workers : UnlockProcessedMu(i)
    \/ \E i \in Workers : CallOnProgress(i)
    \/ \E i \in Workers : SkipOnProgress(i)
    \/ \E i \in Workers : OnProgressReturns(i)
    \/ \E i \in Workers : LockAndRecord(i)
    \/ \E i \in Workers : UnlockResult(i)
    \/ \E i \in Workers : ReleaseSlot(i)
    \/ \E i \in Workers : WgDone(i)

(***************************************************************************)
(* Strings.  A Go string is modelled as the sequence of its characters, so *)
(* that prefix and substring tests are computed on the characters.         *)
(***************************************************************************)
\* constants.StoreResourcePrefix = "fileSearchStores/"
StoreResourcePrefix ==
    <<"f", "i", "l", "e", "S", "e", "a", "r", "c", "h",
      "S", "t", "o", "r", "e", "s", "/">>
\* constants.FileResourcePrefix = "files/"
FileResourcePrefix == <<"f", "i", "l", "e", "s", "/">>
\* constants.DocumentResourcePrefix = "/documents/"
DocumentResourcePrefix ==
    <<"/", "d", "o", "c", "u", "m", "e", "n", "t", "s", "/">>
\* constants.OperationResourcePrefix = "/operations/"
OperationResourcePrefix ==
    <<"/", "o", "p", "e", "r", "a", "t", "i", "o", "n", "s", "/">>

\* strings.HasPrefix(s, prefix)
HasPrefix(s, prefix) ==
    /\ Len(s) >= Len(prefix)
    /\ SubSeq(s, 1, Len(prefix)) = prefix

\* strings.Contains(s, substr)
Contains(s, substr) ==
    \E i \in 0..(Len(s) - Len(substr)) :
        SubSeq(s, i + 1, i + Len(substr)) = substr

(***************************************************************************)
(* Resolver: Client.ResolveStoreName, ResolveFileName, ResolveDocumentName *)
(* over the paged listings of Client.ListStores, ListFiles, ListDocuments. *)
(***************************************************************************)
\* Most entries of one remote listing, and most pages it is served in.
MaxEntries == 2
MaxPages == 2

\* Display names of the remote resources: they differ in case only.
DisplayNames == {<<"d", "o", "c", "s">>, <<"D", "o", "c", "s">>}

\* The resource names the service gives to its k-th store, file, document.
StoreName(k) == StoreResourcePrefix \o <<"s", ToString(k)>>
FileName(k) == FileResourcePrefix \o <<"f", ToString(k)>>
DocumentName(store, k) == store \o DocumentResourcePrefix \o <<"d", ToString(k)>>

\* The references a caller passes: display names, a name no resource has,
\* the empty string, resource names of each kind, a string that holds
\* "/documents/" without being a store's resource name, and a store prefix
\* that lacks its slash.
References ==
    DisplayNames \cup
    { <<"n", "o", "n", "e">>,
      <<>>,
      StoreName(1),
      FileName(1),
      DocumentName(StoreName(1), 1),
      <<"x">> \o DocumentResourcePrefix \o <<"y">>,
      SubSeq(StoreResourcePrefix, 1, Len(StoreResourcePrefix) - 1) }

\* The store references of ResolveDocumentName: display names, an absent
\* name, the resource name of a store the service has or may have, and of
\* one it never has.
StoreReferences ==
    DisplayNames \cup
    { <<"n", "o", "n", "e">>, StoreName(1), StoreName(2),
      StoreResourcePrefix \o <<"g", "o", "n", "e">> }

\* The entries of a listing whose display names are names, in order.
StoreEntries(names) ==
    [i \in 1..Len(names) |-> [Name |-> StoreName(i), DisplayName |-> names[i]]]

FileEntries(names) ==
    [i \in 1..Len(names) |-> [Name |-> FileName(i), DisplayName |-> names[i]]]

DocumentEntries(store, names) ==
    [i \in 1..Len(names) |->
        [Name |-> DocumentName(store, i), DisplayName |-> names[i]]]

\* The display-name sequences of the listings of at most n entries.
NameLists(n) == UNION {[1..k -> DisplayNames] : k \in 0..n}

\* The ways the service serves list s in at most k pages.  The last page is
\* the one without a next-page token; an empty listing is one empty page.
RECURSIVE Split(_, _)
Split(s, k) ==
    IF Len(s) = 0 THEN {<<>>}
    ELSE IF k = 0 THEN {}
    ELSE UNION {{<<SubSeq(s, 1, i)>> \o rest :
                    rest \in Split(SubSeq(s, i + 1, Len(s)), k - 1)} :
                i \in 1..Len(s)}

Paged(s, k) == IF Len(s) = 0 THEN {<< <<>> >>} ELSE Split(s, k)

\* The whole listing the pages make up.
RECURSIVE Flatten(_)
Flatten(pages) ==
    IF pages = <<>> THEN <<>> ELSE Head(pages) \o Flatten(Tail(pages))

\* Errors: the format and the arguments of fmt.Errorf; nil; a transport error.
NilError == [format |-> "nil", args |-> <<>>]
RemoteError(e) == [format |-> e, args |-> <<>>]

\* Every kind tested with the store prefix.
IsCanonicalStorePrefixOnly(kind, ref) == HasPrefix(ref, StoreResourcePrefix)

\* The shape tests that open the three resolvers.
IsCanonical(kind, ref) ==
    IF kind = "store" THEN HasPrefix(ref, StoreResourcePrefix)
    ELSE IF kind = "file" THEN HasPrefix(ref, FileResourcePrefix)
    ELSE Contains(ref, DocumentResourcePrefix)

\* The documents are listed under the reference as the caller gave it.
ListParentUnresolved == IF listing = "documents" THEN storeNameOrID ELSE <<>>

\* The parent a listing call names: "c.ListDocuments(ctx, storeID)"; the
\* stores and the files are listed without one.
ListParent == IF listing = "documents" THEN storeID ELSE <<>>

\* The pages the service holds for the listing being fetched (none for the
\* documents of a store it does not have).
CurrentPages ==
    IF listing = "stores" THEN remoteStores
    ELSE IF listing = "files" THEN remoteFiles
    ELSE IF ListParent \in DOMAIN remoteDocuments THEN remoteDocuments[ListParent]
    ELSE <<>>

\* The loop stops after the first page.
NextPageTokenIgnored(fetched) == FALSE

\* "resp.NextPageToken != \"\"" after fetched pages have been received.
NextPageToken(fetched) == fetched < Len(CurrentPages)

\* The reference the listing is scanned for: the store reference while
\* ResolveDocumentName resolves its store, else the reference itself.
LookedFor ==
    IF resolveKind = "document" /\ listing = "stores" THEN storeNameOrID
    ELSE nameOrID

\* The scan returns the last entry that matches.
LastMatch(list, ref) ==
    LET hits == {i \in DOMAIN list : list[i].DisplayName = ref}
    IN  IF hits = {} THEN 0 ELSE CHOOSE i \in hits : \A j \in hits : j <= i

\* "for _, s := range stores { if s.DisplayName == nameOrID { return ... } }":
\* the index of the entry the scan returns at, 0 if it runs to the end.
RECURSIVE ScanFrom(_, _, _)
ScanFrom(list, ref, i) ==
    IF i > Len(list) THEN 0
    ELSE IF list[i].DisplayName = ref THEN i
    ELSE ScanFrom(list, ref, i + 1)

FirstMatch(list, ref) == ScanFrom(list, ref, 1)

\* The error of a scan that ran to the end.
NotFoundError ==
    IF listing = "stores"
    THEN [format |-> "store not found: %s", args |-> <<LookedFor>>]
    ELSE IF listing = "files"
    THEN [format |-> "file not found: %s", args |-> <<LookedFor>>]
    ELSE [format |-> "document not found in store %s: %s",
          args |-> <<storeID, LookedFor>>]

\* The remote state and the arguments of one call.  A store or file call
\* draws its listing in every pagination; a document call draws the stores on
\* one page, the documents of the first store in every pagination and gives
\* every other store one short listing.
ResolverArguments ==
    \/ /\ resolveKind = "store"
       /\ \E names \in NameLists(MaxEntries) :
              remoteStores \in Paged(StoreEntries(names), MaxPages)
       /\ remoteFiles = << <<>> >>
       /\ remoteDocuments = <<>>
       /\ nameOrID \in References
       /\ storeNameOrID = <<>>
    \/ /\ resolveKind = "file"
       /\ \E names \in NameLists(MaxEntries) :
              remoteFiles \in Paged(FileEntries(names), MaxPages)
       /\ remoteStores = << <<>> >>
       /\ remoteDocuments = <<>>
       /\ nameOrID \in References
       /\ storeNameOrID = <<>>
    \/ /\ resolveKind = "document"
       /\ \E names \in NameLists(MaxEntries) :
              remoteStores = <<StoreEntries(names)>>
       /\ remoteFiles = << <<>> >>
       /\ \E docs \in NameLists(MaxEntries), others \in NameLists(1) :
          \E first \in Paged(DocumentEntries(StoreName(1), docs),
                             MaxPages) :
              remoteDocuments =
                  [s \in {e.Name : e \in Range(Flatten(remoteStores))} |->
                      IF s = StoreName(1) THEN first
                      ELSE <<DocumentEntries(s, others)>>]
       /\ nameOrID \in References
       /\ storeNameOrID \in StoreReferences

ResolverInit ==
    /\ ResolverArguments
    /\ rpc = "entry"
    /\ listing = "none"
    /\ pageIdx = 0
    /\ items = <<>>
    /\ storeID = <<>>
    /\ remoteCalls = <<>>
    /\ resolved = <<>>
    /\ resolveErr = NilError

\* No reference is resolved: the state of the resolver under the other
\* specifications.
ResolverIdle ==
    /\ resolveKind = "store"
    /\ nameOrID = <<>>
    /\ storeNameOrID = <<>>
    /\ remoteStores = << <<>> >>
    /\ remoteFiles = << <<>> >>
    /\ remoteDocuments = <<>>
    /\ rpc = "idle"
    /\ listing = "none"
    /\ pageIdx = 0
    /\ items = <<>>
    /\ storeID = <<>>
    /\ remoteCalls = <<>>
    /\ resolved = <<>>
    /\ resolveErr = NilError

\* "if strings.HasPrefix(nameOrID, ...) { return nameOrID, nil }" (for a
\* document: strings.Contains(docNameOrID, "/documents/")).
ReturnAsIs ==
    /\ rpc = "entry"
    /\ IsCanonical(resolveKind, nameOrID)
    /\ resolved' = nameOrID
    /\ rpc' = "done"
    /\ UNCHANGED <<resolveKind, nameOrID, storeNameOrID, remoteStores,
                   remoteFiles, remoteDocuments, listing, pageIdx, items,
                   storeID, remoteCalls, resolveErr>>
    /\ UNCHANGED notResolverVars

\* ResolveStoreName / ResolveFileName go on to "c.ListStores(ctx)" /
\* "c.ListFiles(ctx)".
BeginListing ==
    /\ rpc = "entry"
    /\ resolveKind \in {"store", "file"}
    /\ ~IsCanonical(resolveKind, nameOrID)
    /\ listing' = IF resolveKind = "store" THEN "stores" ELSE "files"
    /\ rpc' = "list"
    /\ UNCHANGED <<resolveKind, nameOrID, storeNameOrID, remoteStores,
                   remoteFiles, remoteDocuments, pageIdx, items, storeID,
                   remoteCalls, resolved, resolveErr>>
    /\ UNCHANGED notResolverVars

\* ResolveDocumentName calls ResolveStoreName(storeNameOrID), which returns a
\* reference of resource shape as it is or goes on to list the stores.
ResolveScopeStore ==
    /\ rpc = "entry"
    /\ resolveKind = "document"
    /\ ~IsCanonical(resolveKind, nameOrID)
    /\ IF IsCanonical("store", storeNameOrID)
       THEN /\ storeID' = storeNameOrID
            /\ listing' = "documents"
       ELSE /\ storeID' = storeID
            /\ listing' = "stores"
    /\ rpc' = "list"
    /\ UNCHANGED <<resolveKind, nameOrID, storeNameOrID, remoteStores,
                   remoteFiles, remoteDocuments, pageIdx, items,
                   remoteCalls, resolved, resolveErr>>
    /\ UNCHANGED notResolverVars

\* One page arrives ("List" for the first, "resp.Next" for the others) and is
\* appended; the loop goes on while the page carries a next-page token.
FetchPageSucceeds ==
    /\ rpc = "list"
    /\ pageIdx < Len(CurrentPages)
    /\ items' = items \o CurrentPages[pageIdx + 1]
    /\ pageIdx' = pageIdx + 1
    /\ remoteCalls' = Append(remoteCalls,
                             [listing |-> listing, parent |-> ListParent,
                              page |-> pageIdx + 1, ok |-> TRUE])
    /\ rpc' = IF NextPageToken(pageIdx + 1) THEN "list" ELSE "scan"
    /\ UNCHANGED <<resolveKind, nameOrID, storeNameOrID, remoteStores,
                   remoteFiles, remoteDocuments, listing, storeID, resolved,
                   resolveErr>>
    /\ UNCHANGED notResolverVars

\* The fetch of a page fails: the listing returns (nil, err) and the
\* resolver returns ("", err).
FetchPageFails ==
    /\ rpc = "list"
    /\ \E e \in TransportErrors : resolveErr' = RemoteError(e)
    /\ remoteCalls' = Append(remoteCalls,
                             [listing |-> listing, parent |-> ListParent,
                              page |-> pageIdx + 1, ok |-> FALSE])
    /\ items' = <<>>
    /\ rpc' = "done"
    /\ UNCHANGED <<resolveKind, nameOrID, storeNameOrID, remoteStores,
                   remoteFiles, remoteDocuments, listing, pageIdx, storeID,
                   resolved>>
    /\ UNCHANGED notResolverVars

\* The scan finds an entry: its Name is returned, or, while the store of
\* ResolveDocumentName is resolved, becomes storeID and the documents of that
\* store are listed.
ScanFinds ==
    /\ rpc = "scan"
    /\ FirstMatch(items, LookedFor) # 0
    /\ IF resolveKind = "document" /\ listing = "stores"
       THEN /\ storeID' = items[FirstMatch(items, LookedFor)].Name
            /\ listing' = "documents"
            /\ pageIdx' = 0
            /\ items' = <<>>
            /\ rpc' = "list"
            /\ UNCHANGED resolved
       ELSE /\ resolved' = items[FirstMatch(items, LookedFor)].Name
            /\ rpc' = "done"
            /\ UNCHANGED <<storeID, listing, pageIdx, items>>
    /\ UNCHANGED <<resolveKind, nameOrID, storeNameOrID, remoteStores,
                   remoteFiles, remoteDocuments, remoteCalls, resolveErr>>
    /\ UNCHANGED notResolverVars

\* The scan runs to the end: the not-found error of the kind is returned.
ScanFindsNothing ==
    /\ rpc = "scan"
    /\ FirstMatch(items, LookedFor) = 0
    /\ resolveErr' = NotFoundError
    /\ rpc' = "done"
    /\ UNCHANGED <<resolveKind, nameOrID, storeNameOrID, remoteStores,
                   remoteFiles, remoteDocuments, listing, pageIdx, items,
                   storeID, remoteCalls, resolved>>
    /\ UNCHANGED notResolverVars

ResolverNext ==
    \/ ReturnAsIs
    \/ BeginListing
    \/ ResolveScopeStore
    \/ FetchPageSucceeds
    \/ FetchPageFails
    \/ ScanFinds
    \/ ScanFindsNothing

(***************************************************************************)
(* Cache: completion.Cache (NewCache, Get, Set, Clear) under concurrent    *)
(* callers.  Time is counted in minutes.                                   *)
(***************************************************************************)
\* Largest ttl passed to NewCache (drawn from -1 on), last reading of the
\* clock, and most calls started in one run.
MaxTTL == 2
MaxClock == 3
MaxCalls == 3

\* "ttl = 5 * time.Minute"
DefaultTTL == 5

\* The goroutines that call the cache, the keys and the value lists they
\* use: the two lists hold the same values in different orders.
Callers == {1, 2}
StoresKey == <<"s", "t", "o", "r", "e", "s">>
FilesKey == <<"f", "i", "l", "e", "s">>
Keys == {StoresKey, FilesKey}
ValueLists == {<<"a", "b">>, <<"b", "a">>}

EmptyEntries == <<>>
NoCall == [op |-> "none", key |-> <<>>, values |-> <<>>]
NoReturn == [values |-> <<>>, found |-> FALSE, at |-> -1]

\* "cacheTTL = 300 * time.Second // 5 minutes default", in minutes.
DefaultCacheTTL == 300 \div 60

\* getCompleter: "if cacheTTL == 0 { cacheTTL = 300 * time.Second }"
GetCompleterTTL(t) == IF t = 0 THEN DefaultCacheTTL ELSE t

\* A coercion that catches zero only.
CoerceTTLZeroOnly(t) == IF t = 0 THEN DefaultTTL ELSE t

\* "if ttl <= 0 { ttl = 5 * time.Minute }"
CoerceTTL(t) == IF t <= 0 THEN DefaultTTL ELSE t

\* The ttl of the cache made for a requested t: by NewCache(t) called
\* directly, or by getCompleter, which passes its own coercion of the
\* configured t through NewCompleter to NewCache.
EffectiveTTLs(t) == {CoerceTTL(t), CoerceTTL(GetCompleterTTL(t))}

\* "time.Now().After(entry.ExpiresAt)"
Expired(entry) == now > entry.ExpiresAt

\* The body of Get: (nil, false) for a key without entry or with an expired
\* one, else (entry.Values, true).
GetResult(key) ==
    IF key \notin DOMAIN entries \/ Expired(entries[key])
    THEN [values |-> <<>>, found |-> FALSE]
    ELSE [values |-> entries[key].Values, found |-> TRUE]

\* The store into a map made anew.
SetEntryFreshMap(key, values) ==
    [k \in {key} |-> [Values |-> values, ExpiresAt |-> now + ttl]]

\* The body of Set: "c.entries[key] = &CacheEntry{Values: values,
\* ExpiresAt: time.Now().Add(c.ttl)}".
SetEntry(key, values) ==
    [k \in DOMAIN entries \cup {key} |->
        IF k = key THEN [Values |-> values, ExpiresAt |-> now + ttl]
        ELSE entries[k]]

\* c.mu.RLock() returns: no writer holds the mutex.
CanRLock == cacheMu.writer = 0

\* A Lock that excludes nobody.
CanLockAlways == TRUE

\* c.mu.Lock() returns: nobody holds the mutex.
CanLock == cacheMu.writer = 0 /\ cacheMu.readers = {}

\* The mutex once goroutine g's "c.mu.RLock()" / "c.mu.Lock()" has returned.
RLocked(m, g) == [m EXCEPT !.readers = @ \cup {g}]
Locked(m, g) == [m EXCEPT !.writer = g]

\* A return without the deferred unlock.
RUnlockedNot(m, g) == m

\* The mutex once g's "defer c.mu.RUnlock()" / "defer c.mu.Unlock()" has run.
RUnlocked(m, g) == [m EXCEPT !.readers = @ \ {g}]
Unlocked(m, g) == [m EXCEPT !.writer = IF @ = g THEN 0 ELSE @]

\* The callers at rest.
CallersIdle ==
    /\ cacheMu = [writer |-> 0, readers |-> {}]
    /\ cpc = [g \in Callers |-> "idle"]
    /\ call = [g \in Callers |-> NoCall]
    /\ ret = [g \in Callers |-> NoReturn]
    /\ calls = 0
    /\ lastSet = <<>>

\* NewCache(t) at time 0, called directly or from getCompleter.
CacheInit ==
    /\ givenTTL \in (-1)..MaxTTL
    /\ ttl \in EffectiveTTLs(givenTTL)
    /\ entries = EmptyEntries
    /\ now = 0
    /\ CallersIdle

\* No cache is in use: the state of the cache under the other specifications.
CacheIdle ==
    /\ ttl = DefaultTTL
    /\ givenTTL = 0
    /\ entries = EmptyEntries
    /\ now = 0
    /\ CallersIdle

\* Caller g calls Get(key), Set(key, values) or Clear().
CallCache(g) ==
    /\ cpc[g] = "idle"
    /\ calls < MaxCalls
    /\ \E c \in [op : {"Get"}, key : Keys, values : {<<>>}] \cup
                [op : {"Set"}, key : Keys, values : ValueLists] \cup
                {[op |-> "Clear", key |-> <<>>, values |-> <<>>]} :
           call' = [call EXCEPT ![g] = c]
    /\ cpc' = [cpc EXCEPT ![g] = "lock"]
    /\ calls' = calls + 1
    /\ UNCHANGED <<cacheMu, ret, lastSet>>
    /\ UNCHANGED <<cacheVars, notCacheVars>>

\* "c.mu.RLock()" of Get returns.
RLock(g) ==
    /\ cpc[g] = "lock"
    /\ call[g].op = "Get"
    /\ CanRLock
    /\ cacheMu' = [cacheMu EXCEPT !.readers = @ \cup {g}]
    /\ cpc' = [cpc EXCEPT ![g] = "body"]
    /\ UNCHANGED <<call, ret, calls, lastSet>>
    /\ UNCHANGED <<cacheVars, notCacheVars>>

\* "c.mu.Lock()" of Set or Clear returns.  The history notes whose Set now
\* holds the lock for the key; a Clear that holds it wipes the history.
Lock(g) ==
    /\ cpc[g] = "lock"
    /\ call[g].op \in {"Set", "Clear"}
    /\ CanLock
    /\ cacheMu' = [cacheMu EXCEPT !.writer = g]
    /\ cpc' = [cpc EXCEPT ![g] = "body"]
    /\ lastSet' =
          IF call[g].op = "Clear" THEN <<>>
          ELSE [k \in DOMAIN lastSet \cup {call[g].key} |->
                   IF k = call[g].key
                   THEN [by |-> g, values |-> call[g].values, at |-> -1]
                   ELSE lastSet[k]]
    /\ UNCHANGED <<call, ret, calls>>
    /\ UNCHANGED <<cacheVars, notCacheVars>>

\* The body of Get: the return values are read off the entry and the clock.
GetBody(g) ==
    /\ cpc[g] = "body"
    /\ call[g].op = "Get"
    /\ ret' = [ret EXCEPT ![g] = [values |-> GetResult(call[g].key).values,
                                   found |-> GetResult(call[g].key).found,
                                   at |-> now]]
    /\ cpc' = [cpc EXCEPT ![g] = "return"]
    /\ UNCHANGED <<cacheMu, call, calls, lastSet>>
    /\ UNCHANGED <<cacheVars, notCacheVars>>

\* The body of Set.  The history notes the clock reading of the Set that
\* last took the lock for the key.
SetBody(g) ==
    /\ cpc[g] = "body"
    /\ call[g].op = "Set"
    /\ entries' = SetEntry(call[g].key, call[g].values)
    /\ lastSet' =
          IF call[g].key \in DOMAIN lastSet /\ lastSet[call[g].key].by = g
          THEN [lastSet EXCEPT ![call[g].key].at = now]
          ELSE lastSet
    /\ cpc' = [cpc EXCEPT ![g] = "return"]
    /\ UNCHANGED <<ttl, givenTTL, now, cacheMu, call, ret, calls>>
    /\ UNCHANGED notCacheVars

\* The body of Clear: "c.entries = make(map[string]*CacheEntry)".
ClearBody(g) ==
    /\ cpc[g] = "body"
    /\ call[g].op = "Clear"
    /\ entries' = EmptyEntries
    /\ cpc' = [cpc EXCEPT ![g] = "return"]
    /\ UNCHANGED <<ttl, givenTTL, now, cacheMu, call, ret, calls, lastSet>>
    /\ UNCHANGED notCacheVars

\* The deferred RUnlock / Unlock runs and the call returns.
Unlock(g) ==
    /\ cpc[g] = "return"
    /\ cacheMu' = IF call[g].op = "Get"
                  THEN [cacheMu EXCEPT !.readers = @ \ {g}]
                  ELSE [cacheMu EXCEPT !.writer = IF @ = g THEN 0 ELSE @]
    /\ cpc' = [cpc EXCEPT ![g] = "idle"]
    /\ call' = [call EXCEPT ![g] = NoCall]
    /\ ret' = [ret EXCEPT ![g] = NoReturn]
    /\ UNCHANGED <<calls, lastSet>>
    /\ UNCHANGED <<cacheVars, notCacheVars>>

\* A minute passes.
Tick ==
    /\ now < MaxClock
    /\ now' = now + 1
    /\ UNCHANGED <<ttl, givenTTL, entries, callerVars>>
    /\ UNCHANGED notCacheVars

\* The steps of the calls in progress.
CallStep ==
    \E g \in Callers :
        RLock(g) \/ Lock(g) \/ GetBody(g) \/ SetBody(g) \/ ClearBody(g) \/ Unlock(g)

CacheNext ==
    \/ \E g \in Callers : CallCache(g)
    \/ \E g \in Callers : RLock(g)
    \/ \E g \in Callers : Lock(g)
    \/ \E g \in Callers : GetBody(g)
    \/ \E g \in Callers : SetBody(g)
    \/ \E g \in Callers : ClearBody(g)
    \/ \E g \in Callers : Unlock(g)
    \/ Tick

(***************************************************************************)
(* Completer: the lookup methods of completion.Completer over its Cache    *)
(* and its lazily initialised client.                                      *)
(***************************************************************************)
\* Most lookup methods called in one run.
MaxCompletions == 3

Methods == {"GetStoreNames", "GetFileNames", "GetDocumentNames", "GetModelNames"}

\* The store references passed to GetDocumentNames: none, a display name, a
\* resource name.
StoreRefs == {<<>>, <<"d", "o", "c", "s">>, StoreName(1)}

\* constants.GetModelList()
GetModelList ==
    << <<"g", "e", "m", "i", "n", "i", "-", "2", ".", "5", "-",
         "f", "l", "a", "s", "h">>,
       <<"g", "e", "m", "i", "n", "i", "-", "2", ".", "5", "-", "p", "r", "o">> >>

\* "models/"
ModelsPrefix == <<"m", "o", "d", "e", "l", "s", "/">>

\* The name lists a successful remote lookup yields: of stores, files and
\* documents; and the Name fields of the models, with and without "models/".
RemoteNameLists == {<<>>, << <<"b">>, <<"a">> >>}
RemoteModelNames ==
    {<<>>, << <<"m", "2">>, ModelsPrefix \o <<"m", "1">> >>}

\* strings.TrimPrefix(s, prefix)
TrimPrefix(s, prefix) ==
    IF HasPrefix(s, prefix) THEN SubSeq(s, Len(prefix) + 1, Len(s)) ELSE s

\* The loop of GetModelNames over the models.
ModelNames(models) ==
    [i \in DOMAIN models |-> TrimPrefix(models[i], ModelsPrefix)]

ModelsKey == <<"m", "o", "d", "e", "l", "s">>
\* One key for the documents of every store.
DocsKeyShared(ref) == <<"d", "o", "c", "s", ":">>

\* "docs:" + storeRef
DocsKey(ref) == <<"d", "o", "c", "s", ":">> \o ref

\* The cache key of the method being run.
CacheKey ==
    IF method = "GetStoreNames" THEN StoresKey
    ELSE IF method = "GetFileNames" THEN FilesKey
    ELSE IF method = "GetModelNames" THEN ModelsKey
    ELSE DocsKey(storeRef)

\* What a method returns in place of a looked-up list: GetModelNames its
\* defaults, the others "[]string{}".
Fallback(m) == IF m = "GetModelNames" THEN GetModelList ELSE <<>>

\* The opening test never holds.
LookupsOffNever(m, ref) == FALSE

\* "if !c.enabled" ("if !c.enabled || storeRef == \"\"" in GetDocumentNames).
LookupsOff(m, ref) == ~enabled \/ (m = "GetDocumentNames" /\ ref = <<>>)

\* NewCompleter(apiKey, enabled, cacheTTL), beside the NewCache it calls.
CompleterInit ==
    /\ enabled \in BOOLEAN
    /\ clientInit = FALSE
    /\ cmpc = "idle"
    /\ method = "none"
    /\ storeRef = <<>>
    /\ result = <<>>
    /\ outcome = "none"
    /\ newClientCalls = 0
    /\ lookups = 0
    /\ completions = 0

\* No completer is in use: its state under the other specifications.
CompleterIdle ==
    /\ enabled = FALSE
    /\ clientInit = FALSE
    /\ cmpc = "none"
    /\ method = "none"
    /\ storeRef = <<>>
    /\ result = <<>>
    /\ outcome = "none"
    /\ newClientCalls = 0
    /\ lookups = 0
    /\ completions = 0

\* A lookup method is called.
CallCompleter ==
    /\ cmpc = "idle"
    /\ completions < MaxCompletions
    /\ \E m \in Methods :
          /\ method' = m
          /\ storeRef' \in (IF m = "GetDocumentNames" THEN StoreRefs ELSE {<<>>})
    /\ cmpc' = "entry"
    /\ completions' = completions + 1
    /\ UNCHANGED <<enabled, clientInit, result, outcome, newClientCalls, lookups>>
    /\ UNCHANGED <<cacheVars, notCompleterVars>>

\* The method returns at its opening test.
ReturnOff ==
    /\ cmpc = "entry"
    /\ LookupsOff(method, storeRef)
    /\ result' = Fallback(method)
    /\ outcome' = IF enabled THEN "noStore" ELSE "disabled"
    /\ cmpc' = "returning"
    /\ UNCHANGED <<enabled, clientInit, method, storeRef, newClientCalls,
                   lookups, completions>>
    /\ UNCHANGED <<cacheVars, notCompleterVars>>

\* "if cached, ok := c.cache.Get(key); ok { return cached }".  Every call of
\* the cache by the completer, whose goroutine is caller 1 of the mutex,
\* takes the mutex and has released it when it returns.
ReturnCached ==
    /\ cmpc = "entry"
    /\ ~LookupsOff(method, storeRef)
    /\ CanRLock
    /\ GetResult(CacheKey).found
    /\ result' = GetResult(CacheKey).values
    /\ cacheMu' = RUnlocked(RLocked(cacheMu, 1), 1)
    /\ outcome' = "cached"
    /\ cmpc' = "returning"
    /\ UNCHANGED <<enabled, clientInit, method, storeRef, newClientCalls,
                   lookups, completions>>
    /\ UNCHANGED <<cacheVars, notCompleterNorMuVars>>

\* The cache misses and ensureClient fails: gemini.NewClient returns an error.
EnsureClientFails ==
    /\ cmpc = "entry"
    /\ ~LookupsOff(method, storeRef)
    /\ CanRLock
    /\ ~GetResult(CacheKey).found
    /\ cacheMu' = RUnlocked(RLocked(cacheMu, 1), 1)
    /\ ~clientInit
    /\ newClientCalls' = newClientCalls + 1
    /\ result' = Fallback(method)
    /\ outcome' = "initFailed"
    /\ cmpc' = "returning"
    /\ UNCHANGED <<enabled, clientInit, method, storeRef, lookups, completions>>
    /\ UNCHANGED <<cacheVars, notCompleterNorMuVars>>

\* The cache misses and ensureClient returns the client, made now unless it
\* was made before.
EnsureClientSucceeds ==
    /\ cmpc = "entry"
    /\ ~LookupsOff(method, storeRef)
    /\ CanRLock
    /\ ~GetResult(CacheKey).found
    /\ cacheMu' = RUnlocked(RLocked(cacheMu, 1), 1)
    /\ newClientCalls' = IF clientInit THEN newClientCalls ELSE newClientCalls + 1
    /\ clientInit' = TRUE
    /\ cmpc' = "lookup"
    /\ UNCHANGED <<enabled, method, storeRef, result, outcome, lookups,
                   completions>>
    /\ UNCHANGED <<cacheVars, notCompleterNorMuVars>>

\* The remote lookup fails (for GetDocumentNames: ResolveStoreName or
\* client.GetDocumentNames).
LookupFails ==
    /\ cmpc = "lookup"
    /\ lookups' = lookups + 1
    /\ result' = Fallback(method)
    /\ outcome' = "lookupFailed"
    /\ cmpc' = "returning"
    /\ UNCHANGED <<enabled, clientInit, method, storeRef, newClientCalls,
                   completions>>
    /\ UNCHANGED <<cacheVars, notCompleterVars>>

\* The remote lookup succeeds: the names are cached and returned
\* (GetModelNames strips "models/" and, given no model, returns its defaults
\* without caching them).
LookupSucceeds ==
    /\ cmpc = "lookup"
    /\ lookups' = lookups + 1
    /\ \E names \in (IF method = "GetModelNames"
                     THEN {ModelNames(ms) : ms \in RemoteModelNames}
                     ELSE RemoteNameLists) :
          IF method = "GetModelNames" /\ Len(names) = 0
          THEN /\ result' = GetModelList
               /\ UNCHANGED <<entries, cacheMu>>
          ELSE /\ CanLock
               /\ result' = names
               /\ entries' = SetEntry(CacheKey, names)
               /\ cacheMu' = Unlocked(Locked(cacheMu, 1), 1)
    /\ outcome' = "fetched"
    /\ cmpc' = "returning"
    /\ UNCHANGED <<enabled, clientInit, method, storeRef, newClientCalls,
                   completions>>
    /\ UNCHANGED <<ttl, givenTTL, now, notCompleterNorMuVars>>

\* The method has returned.
CompleterReturns ==
    /\ cmpc = "returning"
    /\ cmpc' = "idle"
    /\ method' = "none"
    /\ storeRef' = <<>>
    /\ result' = <<>>
    /\ outcome' = "none"
    /\ UNCHANGED <<enabled, clientInit, newClientCalls, lookups, completions>>
    /\ UNCHANGED <<cacheVars, notCompleterVars>>

\* A minute passes between two calls.
TickBetweenCalls ==
    /\ cmpc = "idle"
    /\ Tick

CompleterNext ==
    \/ CallCompleter
    \/ ReturnOff
    \/ ReturnCached
    \/ EnsureClientFails
    \/ EnsureClientSucceeds
    \/ LookupFails
    \/ LookupSucceeds
    \/ CompleterReturns
    \/ TickBetweenCalls

(***************************************************************************)
(* Batch commands: RunE of `file upload` and `store import-file` from the  *)
(* return of processBatch on.                                              *)
(***************************************************************************)
Commands == {"file upload", "store import-file"}

\* What processBatch returns for the files whose perItemOp calls returned
\* errs, the goroutines recording in the order of the files.
RECURSIVE BatchResultOf(_, _)
BatchResultOf(fs, errs) ==
    IF fs = <<>>
    THEN [Succeeded |-> <<>>, Failed |-> EmptyFailed, Total |-> 0]
    ELSE LET n == Len(fs)
             rest == BatchResultOf(SubSeq(fs, 1, n - 1), SubSeq(errs, 1, n - 1))
         IN  IF errs[n] = NoError
             THEN [Succeeded |-> Append(rest.Succeeded, fs[n]),
                   Failed |-> rest.Failed,
                   Total |-> rest.Total + 1]
             ELSE [Succeeded |-> rest.Succeeded,
                   Failed |-> [k \in (DOMAIN rest.Failed) \cup {fs[n]} |->
                                  IF k = fs[n] THEN errs[n] ELSE rest.Failed[k]],
                   Total |-> rest.Total + 1]

\* "if !quiet { if len(args) > 1 { ...Summary... } }"
SummaryPrinted == IF ~quiet /\ Len(args) > 1 THEN <<"summary">> ELSE <<>>

\* "return fmt.Errorf(\"some files failed to upload\")" / "...to import".
ErrSomeFailed ==
    IF command = "file upload" THEN "some files failed to upload"
    ELSE "some files failed to import"

\* What "enc.Encode(data)" of printOutput returns: nil, or the error of the
\* write to stdout.
EncodeErrors == {NoError, "write error"}

\* The command has its client and store and processBatch has returned:
\* cobra.MinimumNArgs(1) admits one argument or more.
CommandInit ==
    /\ command \in Commands
    /\ args \in FileLists(MaxFiles) \ {<<>>}
    /\ quiet \in BOOLEAN
    /\ outputFormat \in {"text", "json"}
    /\ \E errs \in [DOMAIN args -> {NoError, ErrFailed}] :
          batchResult = BatchResultOf(args, errs)
    /\ cmdpc = "batchReturned"
    /\ cmdErr = NoError
    /\ output = <<>>

\* No command runs: the state of the command under the other specifications.
CommandIdle ==
    /\ command = "file upload"
    /\ args = <<>>
    /\ quiet = FALSE
    /\ outputFormat = "text"
    /\ batchResult = [Succeeded |-> <<>>, Failed |-> EmptyFailed, Total |-> 0]
    /\ cmdpc = "idle"
    /\ cmdErr = NoError
    /\ output = <<>>

\* "if outputFormat == \"json\" { ...; return printOutput(jsonResult, \"json\") }"
ReturnJSON ==
    /\ cmdpc = "batchReturned"
    /\ outputFormat = "json"
    /\ \E e \in EncodeErrors :
          /\ cmdErr' = e
          /\ output' = IF e = NoError THEN SummaryPrinted \o <<"json">>
                       ELSE SummaryPrinted
    /\ cmdpc' = "returned"
    /\ UNCHANGED <<command, args, quiet, outputFormat, batchResult>>
    /\ UNCHANGED notCommandVars

\* Text output, "if len(batchResult.Failed) > 0": the failed files are listed
\* unless quiet and the error is returned.
ReturnTextFailure ==
    /\ cmdpc = "batchReturned"
    /\ outputFormat # "json"
    /\ Cardinality(DOMAIN batchResult.Failed) > 0
    /\ output' = SummaryPrinted \o (IF ~quiet THEN <<"failed files">> ELSE <<>>)
    /\ cmdErr' = ErrSomeFailed
    /\ cmdpc' = "returned"
    /\ UNCHANGED <<command, args, quiet, outputFormat, batchResult>>
    /\ UNCHANGED notCommandVars

\* Text output without failures: the success line of a single file is
\* written unless quiet, and nil is returned.
ReturnTextSuccess ==
    /\ cmdpc = "batchReturned"
    /\ outputFormat # "json"
    /\ Cardinality(DOMAIN batchResult.Failed) = 0
    /\ output' = SummaryPrinted \o
                    (IF ~quiet /\ Len(args) = 1 /\ Len(batchResult.Succeeded) = 1
                     THEN <<"success line">> ELSE <<>>)
    /\ cmdErr' = NoError
    /\ cmdpc' = "returned"
    /\ UNCHANGED <<command, args, quiet, outputFormat, batchResult>>
    /\ UNCHANGED notCommandVars

CommandNext ==
    \/ ReturnJSON
    \/ ReturnTextFailure
    \/ ReturnTextSuccess

(***************************************************************************)
(* GetOperation: Client.GetOperation.                                      *)
(***************************************************************************)
\* OperationTypeImport, OperationTypeUpload, the empty type and a string that
\* is neither.
OperationTypes == {"import", "upload", "", "other"}

\* The operation names passed: those of TestOperationNameValidation (with
\* short identifiers) and strings that hold the two literals in other places.
OperationNames ==
    LET abc == <<"a", "b", "c">>
        id == <<"o", "p">>
    IN  { StoreResourcePrefix \o abc \o OperationResourcePrefix \o id,
          abc \o OperationResourcePrefix \o id,
          StoreResourcePrefix \o abc \o <<"/">> \o id,
          <<>>,
          StoreResourcePrefix,
          SubSeq(StoreResourcePrefix, 1, Len(StoreResourcePrefix) - 1)
              \o OperationResourcePrefix \o id,
          Tail(StoreResourcePrefix) \o abc \o OperationResourcePrefix \o id,
          <<"x">> \o StoreResourcePrefix \o abc \o OperationResourcePrefix \o id,
          StoreResourcePrefix \o abc \o Tail(OperationResourcePrefix) \o id,
          StoreResourcePrefix \o abc \o OperationResourcePrefix,
          OperationResourcePrefix \o StoreResourcePrefix,
          FileResourcePrefix \o abc \o OperationResourcePrefix \o id }

\* fmt.Errorf("invalid operation name: must start with '%s'", ...) and
\* fmt.Errorf("invalid operation name: must contain '%s'", ...).
ErrMustStartWith ==
    [format |-> "invalid operation name: must start with '%s'",
     args |-> <<StoreResourcePrefix>>]
ErrMustContain ==
    [format |-> "invalid operation name: must contain '%s'",
     args |-> <<OperationResourcePrefix>>]

\* The prefix test passes every name.
HasStorePrefixAlways(name) == TRUE

\* "strings.HasPrefix(operationName, constants.StoreResourcePrefix)"
HasStorePrefix(name) == HasPrefix(name, StoreResourcePrefix)

\* "strings.Contains(operationName, constants.OperationResourcePrefix)"
HasOperationsInfix(name) == Contains(name, OperationResourcePrefix)

\* Every type asks for both calls.
TryBothAlways(t) == TRUE

\* Neither "if operationType == OperationTypeImport" nor
\* "if operationType == OperationTypeUpload" held: "Try both types".
TryBoth(t) == t # "import" /\ t # "upload"

OperationInit ==
    /\ operationName \in OperationNames
    /\ operationType \in OperationTypes
    /\ gopc = "entry"
    /\ opCalls = <<>>
    /\ gopStatus = "none"
    /\ gopErr = NilError

\* GetOperation is not called: its state under the other specifications.
OperationIdle ==
    /\ operationName = <<>>
    /\ operationType = ""
    /\ gopc = "idle"
    /\ opCalls = <<>>
    /\ gopStatus = "none"
    /\ gopErr = NilError

\* "if !strings.HasPrefix(...) { return nil, fmt.Errorf(...must start with...) }"
RejectPrefix ==
    /\ gopc = "entry"
    /\ ~HasStorePrefix(operationName)
    /\ gopErr' = ErrMustStartWith
    /\ gopc' = "returned"
    /\ UNCHANGED <<operationName, operationType, opCalls, gopStatus>>
    /\ UNCHANGED notOperationVars

\* "if !strings.Contains(...) { return nil, fmt.Errorf(...must contain...) }"
RejectInfix ==
    /\ gopc = "entry"
    /\ HasStorePrefix(operationName)
    /\ ~HasOperationsInfix(operationName)
    /\ gopErr' = ErrMustContain
    /\ gopc' = "returned"
    /\ UNCHANGED <<operationName, operationType, opCalls, gopStatus>>
    /\ UNCHANGED notOperationVars

\* Both tests pass: the declared type selects the remote call, no declared
\* type starts with the import call.
AcceptName ==
    /\ gopc = "entry"
    /\ HasStorePrefix(operationName)
    /\ HasOperationsInfix(operationName)
    /\ gopc' = IF operationType = "upload" THEN "getUpload" ELSE "getImport"
    /\ UNCHANGED <<operationName, operationType, opCalls, gopStatus, gopErr>>
    /\ UNCHANGED notOperationVars

\* getImportOperation returns a status.
GetImportSucceeds ==
    /\ gopc = "getImport"
    /\ opCalls' = Append(opCalls, [call |-> "import", ok |-> TRUE,
                                   err |-> NilError])
    /\ gopStatus' = "import"
    /\ gopc' = "returned"
    /\ UNCHANGED <<operationName, operationType, gopErr>>
    /\ UNCHANGED notOperationVars

\* getImportOperation returns an error: it is returned when the import type
\* was declared, else the upload call is tried.
GetImportFails ==
    /\ gopc = "getImport"
    /\ \E e \in TransportErrors :
          /\ opCalls' = Append(opCalls, [call |-> "import", ok |-> FALSE,
                                         err |-> RemoteError(e)])
          /\ IF TryBoth(operationType)
             THEN /\ gopErr' = gopErr
                  /\ gopc' = "getUpload"
             ELSE /\ gopErr' = RemoteError(e)
                  /\ gopc' = "returned"
    /\ UNCHANGED <<operationName, operationType, gopStatus>>
    /\ UNCHANGED notOperationVars

\* getUploadOperation returns a status.
GetUploadSucceeds ==
    /\ gopc = "getUpload"
    /\ opCalls' = Append(opCalls, [call |-> "upload", ok |-> TRUE,
                                   err |-> NilError])
    /\ gopStatus' = "upload"
    /\ gopc' = "returned"
    /\ UNCHANGED <<operationName, operationType, gopErr>>
    /\ UNCHANGED notOperationVars

\* getUploadOperation returns an error, which GetOperation returns.
GetUploadFails ==
    /\ gopc = "getUpload"
    /\ \E e \in TransportErrors :
          /\ opCalls' = Append(opCalls, [call |-> "upload", ok |-> FALSE,
                                         err |-> RemoteError(e)])
          /\ gopErr' = RemoteError(e)
    /\ gopc' = "returned"
    /\ UNCHANGED <<operationName, operationType, gopStatus>>
    /\ UNCHANGED notOperationVars

OperationNext ==
    \/ RejectPrefix
    \/ RejectInfix
    \/ AcceptName
    \/ GetImportSucceeds
    \/ GetImportFails
    \/ GetUploadSucceeds
    \/ GetUploadFails

(***************************************************************************)
(* MCP server: the tool registration of NewServer.                         *)
(***************************************************************************)
\* Longest enabledTools list.
MaxEnabled == 2

\* The tools in the order of their registration blocks.
ToolOrder ==
    <<"list_stores", "list_files", "list_documents", "create_store",
      "delete_store", "import_file_to_store", "query_knowledge_base",
      "upload_file", "delete_file", "delete_document">>

\* The strings an enabledTools list is made of: the tool names, the group
\* names of the code and of the documentation, "all" and misspellings.
EnabledNames ==
    Range(ToolOrder) \cup
    {"all", "query", "upload", "delete", "list", "manage", "All", ""}

\* "isToolEnabled := func(name string) bool { for _, t := range enabledTools
\* { if t == name { return true } }; return false }"
isToolEnabled(name) == \E i \in DOMAIN enabledTools : enabledTools[i] = name

\* The tool's own name alone selects it.
SelectedByNameOnly(tool) == isToolEnabled(tool)

\* The condition of the registration block of tool.
Selected(tool) ==
    \/ isToolEnabled(tool)
    \/ tool = "query_knowledge_base" /\ isToolEnabled("query")
    \/ tool = "upload_file" /\ isToolEnabled("upload")
    \/ tool \in {"delete_file", "delete_document"} /\ isToolEnabled("delete")
    \/ isToolEnabled("all")

\* NewServer(client, enabledTools) has made the empty server.
ServerInit ==
    /\ enabledTools \in UNION {[1..n -> EnabledNames] : n \in 0..MaxEnabled}
    /\ tools = {}
    /\ spc = 1

\* No server is made: its state under the other specifications.
ServerIdle ==
    /\ enabledTools = <<>>
    /\ tools = {}
    /\ spc = 0

\* The condition of the block holds: "s.AddTool(mcp.NewTool(name, ...), ...)".
RegisterTool ==
    /\ spc \in DOMAIN ToolOrder
    /\ Selected(ToolOrder[spc])
    /\ tools' = tools \cup {ToolOrder[spc]}
    /\ spc' = spc + 1
    /\ UNCHANGED enabledTools
    /\ UNCHANGED notServerVars

\* The condition of the block fails: the tool is not added.
SkipTool ==
    /\ spc \in DOMAIN ToolOrder
    /\ ~Selected(ToolOrder[spc])
    /\ spc' = spc + 1
    /\ UNCHANGED <<enabledTools, tools>>
    /\ UNCHANGED notServerVars

ServerNext ==
    \/ RegisterTool
    \/ SkipTool


(***************************************************************************)
(* The specifications: one per component, the other components at rest.    *)
(***************************************************************************)
BatchSpecInit ==
    /\ BatchInit
    /\ PollerIdle
    /\ ResolverIdle
    /\ CacheIdle
    /\ CompleterIdle
    /\ CommandIdle
    /\ OperationIdle
    /\ ServerIdle

BatchSpec == BatchSpecInit /\ [][BatchNext]_vars

\* BatchFairSpec: the same run under a scheduler that does not stop: as long
\* as the dispatcher or a goroutine can take a step, one of them does.  The
\* steps include the return of every perItemOp and of every OnProgress call,
\* so every such call that has begun can end.
BatchFairSpec == BatchSpecInit /\ [][BatchNext]_vars /\ WF_vars(BatchNext)

PollerSpecInit ==
    /\ PollerInit
    /\ BatchIdle
    /\ ResolverIdle
    /\ CacheIdle
    /\ CompleterIdle
    /\ CommandIdle
    /\ OperationIdle
    /\ ServerIdle

PollerSpec == PollerSpecInit /\ [][PollerNext]_vars

ResolverSpecInit ==
    /\ ResolverInit
    /\ BatchIdle
    /\ PollerIdle
    /\ CacheIdle
    /\ CompleterIdle
    /\ CommandIdle
    /\ OperationIdle
    /\ ServerIdle

ResolverSpec == ResolverSpecInit /\ [][ResolverNext]_vars

CacheSpecInit ==
    /\ CacheInit
    /\ BatchIdle
    /\ PollerIdle
    /\ ResolverIdle
    /\ CompleterIdle
    /\ CommandIdle
    /\ OperationIdle
    /\ ServerIdle

CacheSpec == CacheSpecInit /\ [][CacheNext]_vars

CompleterSpecInit ==
    /\ CompleterInit
    /\ CacheInit
    /\ BatchIdle
    /\ PollerIdle
    /\ ResolverIdle
    /\ CommandIdle
    /\ OperationIdle
    /\ ServerIdle

CompleterSpec == CompleterSpecInit /\ [][CompleterNext]_vars

CommandSpecInit ==
    /\ CommandInit
    /\ BatchIdle
    /\ PollerIdle
    /\ ResolverIdle
    /\ CacheIdle
    /\ CompleterIdle
    /\ OperationIdle
    /\ ServerIdle

CommandSpec == CommandSpecInit /\ [][CommandNext]_vars

OperationSpecInit ==
    /\ OperationInit
    /\ BatchIdle
    /\ PollerIdle
    /\ ResolverIdle
    /\ CacheIdle
    /\ CompleterIdle
    /\ CommandIdle
    /\ ServerIdle

OperationSpec == OperationSpecInit /\ [][OperationNext]_vars

ServerSpecInit ==
    /\ ServerInit
    /\ BatchIdle
    /\ PollerIdle
    /\ ResolverIdle
    /\ CacheIdle
    /\ CompleterIdle
    /\ CommandIdle
    /\ OperationIdle

ServerSpec == ServerSpecInit /\ [][ServerNext]_vars

\* UploadBatchSpec: the upload command runs its batch with --concurrency 1,
\* so that one call of Client.UploadFile is in flight at a time.  The
\* scheduler does not stop, and every remote call that has been made is
\* answered, with an error or with a snapshot.
UploadBatchSpecInit ==
    /\ files \in FileLists(MaxFiles) \ {<<>>}
    /\ givenConcurrency = 1
    /\ Quiet \in BOOLEAN
    /\ OnProgress = "count"
    /\ processor = "upload"
    /\ BatchStart
    /\ PollerIdle
    /\ ResolverIdle
    /\ CacheIdle
    /\ CompleterIdle
    /\ CommandIdle
    /\ OperationIdle
    /\ ServerIdle

UploadBatchSpec ==
    UploadBatchSpecInit /\ [][UploadBatchNext]_vars /\ WF_vars(UploadBatchNext)

\* LockingSpec: the code that takes locks.  One invocation of the program is
\* one command: either it runs processBatch, and no completer is built, or it
\* answers completion requests with the completer getCompleter makes with
\* the default configuration, and no batch is run.
LockingSpecInit ==
    \/ BatchSpecInit
    \/ /\ CompleterInit
       /\ enabled
       /\ CacheIdle
       /\ BatchIdle
       /\ PollerIdle
       /\ ResolverIdle
       /\ CommandIdle
       /\ OperationIdle
       /\ ServerIdle

LockingNext ==
    \/ BatchNext
    \/ CompleterNext

LockingSpec == LockingSpecInit /\ [][LockingNext]_vars

(***************************************************************************)
(* Properties of processBatch (checked under BatchSpec).                   *)
(***************************************************************************)
Returned == pc = "returned"

\* The perItemOp invocations that have started and not yet returned.
InFlight == {i \in Workers : wpc[i] = "processing"}

\* The OnProgress invocations that have started and not yet returned.
InCallback == {i \in Workers : wpc[i] = "inCallback"}

NumRecorded == Len(Succeeded) + Cardinality(DOMAIN Failed)

Distinct(s) == \A i, j \in DOMAIN s : i # j => s[i] # s[j]

LogWorkers == {progressLog[j].worker : j \in DOMAIN progressLog}

LogCounts == {progressLog[j].current : j \in DOMAIN progressLog}

\* C1: when processBatch returns from a batch whose context was never
\* cancelled, len(Succeeded) + len(Failed) equals the number of input items,
\* and every input item is either a value of Succeeded or a key of Failed,
\* never both and never neither - whether or not the items are distinct.
C1_BatchAccounting ==
    (Returned /\ ~cancelled) =>
        /\ NumRecorded = Len(files)
        /\ \A f \in Range(files) :
              (f \in Range(Succeeded)) # (f \in DOMAIN Failed)

C4_ProgressInOrder ==
    \A j, k \in DOMAIN progressLog :
        j < k => progressLog[j].current < progressLog[k].current

\* C5: the current values passed to OnProgress are pairwise distinct, each
\* lies in 1..total with total the number of input items, and when
\* processBatch returns after k callbacks the values are exactly 1..k.
C5_ProgressCounts ==
    /\ \A j \in DOMAIN progressLog :
          /\ progressLog[j].total = Len(files)
          /\ progressLog[j].current >= 1
          /\ progressLog[j].current <= progressLog[j].total
    /\ \A j, k \in DOMAIN progressLog :
          j # k => progressLog[j].current # progressLog[k].current
    /\ Returned => LogCounts = 1..Len(progressLog)

\* C5 witness: two goroutines ran at once and both callbacks were made.
C5_Witness ==
    /\ Returned
    /\ Concurrency >= 2
    /\ Len(progressLog) = 2
    /\ progressLog[1].current = 2

\* C6: in the batch of the cancellation test (five items, concurrency 1, the
\* context cancelled by the callback that reports count 2) no item is
\* dispatched once the cancellation has happened: on return some item was
\* never started, len(Succeeded) + len(Failed) is less than Total and not all
\* five succeed.
C6_CancellationStopsDispatch ==
    (Returned /\ OnProgress = "cancelAt2") =>
        /\ \E i \in Workers : wpc[i] = "none"
        /\ NumRecorded < Total
        /\ Len(Succeeded) < Len(files)

\* C8: every item is processed whatever the other items' outcomes: on return
\* every goroutine has run to its end, and for distinct items whose perItemOp
\* all returned an error, Failed holds every item with its error and
\* Succeeded is empty.
C8_FailureIsolation ==
    Returned =>
        /\ \A i \in Workers : wpc[i] = "finished"
        /\ (Distinct(files) /\ \A i \in Workers : err[i] # NoError) =>
              /\ Cardinality(DOMAIN Failed) = Len(files)
              /\ DOMAIN Failed = Range(files)
              /\ \A i \in Workers : Failed[files[i]] = err[i]
              /\ Succeeded = <<>>

\* C8 witness: two distinct items, run one at a time, both failed.
C8_Witness ==
    /\ Returned
    /\ givenConcurrency = 1
    /\ Len(files) = 2
    /\ Distinct(files)
    /\ \A i \in Workers : err[i] # NoError

C7_OperationFailureSurfaced ==
    (ppc = "returned" /\ op.Done /\ op.Failed) => retErr # NoError

\* C10: the status is fetched only while the latest snapshot is not done (so
\* never after a done snapshot, and not at all when the first snapshot is
\* done); a failed fetch ends the call at once with the error of that fetch;
\* a call that returns no error has seen a done snapshot.
C10_PollerStateMachine ==
    /\ pollsAfterDone = 0
    /\ ppc = "sleep" => ~op.Done
    /\ opErr # NoError => (ppc = "returned" /\ retErr = opErr)
    /\ (ppc = "returned" /\ opErr = NoError) => (op.Done /\ retErr = NoError)

\* C10 witness: the call returned after three fetches, the last one done.
C10_Witness ==
    /\ ppc = "returned"
    /\ polls = MaxPolls
    /\ op.Done
    /\ retErr = NoError

(***************************************************************************)
(* Properties of the resolvers (checked under ResolverSpec).               *)
(***************************************************************************)
ResolverDone == rpc = "done"

\* The reference has the resource shape of its kind.
CanonicalShape ==
    \/ resolveKind = "store" /\ HasPrefix(nameOrID, StoreResourcePrefix)
    \/ resolveKind = "file" /\ HasPrefix(nameOrID, FileResourcePrefix)
    \/ resolveKind = "document" /\ Contains(nameOrID, DocumentResourcePrefix)

\* The listing the reference is looked up in, as the service holds it: the
\* stores, the files, or the documents of the store the call has settled on.
TargetListing ==
    IF resolveKind = "store" THEN Flatten(remoteStores)
    ELSE IF resolveKind = "file" THEN Flatten(remoteFiles)
    ELSE IF listing = "documents" /\ storeID \in DOMAIN remoteDocuments
    THEN Flatten(remoteDocuments[storeID])
    ELSE <<>>

AllCallsSucceeded == \A c \in Range(remoteCalls) : c.ok

\* The call got as far as the listing the reference is looked up in.
ReachedTarget == resolveKind = "document" => listing = "documents"

Matches == {i \in DOMAIN TargetListing : TargetListing[i].DisplayName = nameOrID}

\* C11: a reference that already has the resource shape of its kind (store:
\* begins with fileSearchStores/; file: begins with files/; document: holds
\* /documents/) is returned unchanged, with no error and without any remote
\* call - for a document whatever the store reference is.
C11_ResolverShortCircuit ==
    CanonicalShape =>
        /\ remoteCalls = <<>>
        /\ rpc \in {"entry", "done"}
        /\ ResolverDone => (resolved = nameOrID /\ resolveErr = NilError)

\* C11 witness: a document reference that holds /documents/ without beginning
\* with a store's name was returned, the store reference naming no store.
C11_Witness ==
    /\ ResolverDone
    /\ resolveKind = "document"
    /\ nameOrID = <<"x">> \o DocumentResourcePrefix \o <<"y">>
    /\ storeNameOrID = <<"n", "o", "n", "e">>
    /\ resolved = nameOrID

\* C12: for a reference without the resource shape, a call whose fetches all
\* succeed returns the Name of the first entry, in listing order across the
\* pages, whose DisplayName equals the reference exactly (the earliest one
\* when several entries share the display name); and a Name is returned only
\* so.
C12_ResolverFirstMatch ==
    (ResolverDone /\ ~CanonicalShape) =>
        /\ (AllCallsSucceeded /\ ReachedTarget /\ Matches # {}) =>
              \E i \in Matches :
                  /\ \A j \in Matches : i <= j
                  /\ resolved = TargetListing[i].Name
                  /\ resolveErr = NilError
        /\ resolveErr = NilError =>
              \E i \in Matches :
                  /\ \A j \in Matches : i <= j
                  /\ resolved = TargetListing[i].Name

\* C12 witness: two stores on two pages share the display name asked for and
\* the one on the first page was returned.
C12_Witness ==
    /\ ResolverDone
    /\ resolveKind = "store"
    /\ Len(remoteStores) = 2
    /\ Cardinality(Matches) = 2
    /\ resolved = StoreName(1)

\* The not-found error of the lookup that ended the call.
ExpectedNotFound ==
    IF resolveKind = "store"
    THEN [format |-> "store not found: %s", args |-> <<nameOrID>>]
    ELSE IF resolveKind = "file"
    THEN [format |-> "file not found: %s", args |-> <<nameOrID>>]
    ELSE IF listing = "stores"
    THEN [format |-> "store not found: %s", args |-> <<storeNameOrID>>]
    ELSE [format |-> "document not found in store %s: %s",
          args |-> <<storeID, nameOrID>>]

FetchFailed == \E c \in Range(remoteCalls) : ~c.ok

\* The pages of the listing in hand that were received.
PagesReceived ==
    Cardinality({k \in DOMAIN remoteCalls :
                    remoteCalls[k].ok /\ remoteCalls[k].listing = listing})

\* C13: a display name no entry has yields the not-found error of the kind,
\* naming the reference asked for, and only after every page of the listing
\* was fetched; when the fetch of any page fails the call returns that error
\* and nothing, whatever the pages received before it hold.
C13_ResolverNotFound ==
    /\ (ResolverDone /\ ~CanonicalShape /\ AllCallsSucceeded /\ ReachedTarget
            /\ Matches = {})
          => resolveErr = ExpectedNotFound
    /\ (ResolverDone /\ ~FetchFailed /\ resolveErr # NilError)
          => /\ resolveErr = ExpectedNotFound
             /\ PagesReceived = Len(CurrentPages)
    /\ FetchFailed
          => /\ ResolverDone
             /\ ~remoteCalls[Len(remoteCalls)].ok
             /\ \A k \in 1..(Len(remoteCalls) - 1) : remoteCalls[k].ok
             /\ resolved = <<>>
             /\ resolveErr \in {RemoteError(e) : e \in TransportErrors}

\* C13 witness: both pages of the stores were fetched, no store has the name
\* asked for and the call returned the not-found error.
C13_Witness ==
    /\ ResolverDone
    /\ resolveKind = "store"
    /\ Len(remoteStores) = 2
    /\ PagesReceived = 2
    /\ nameOrID = <<"n", "o", "n", "e">>
    /\ resolveErr = ExpectedNotFound

\* The other case of C13 is reached too: the first page held the store asked
\* for, the fetch of the second page failed and the call returned the error
\* and no name.
C13_FetchFailureReached ==
    /\ ResolverDone
    /\ resolveKind = "store"
    /\ Len(remoteCalls) = 2
    /\ FetchFailed
    /\ \E e \in Range(remoteStores[1]) : e.DisplayName = nameOrID
    /\ resolved = <<>>

(***************************************************************************)
(* Properties of the cache (checked under CacheSpec).                      *)
(***************************************************************************)
\* The callers whose Get has read its return values and not yet returned.
Getting == {g \in Callers : cpc[g] = "return" /\ call[g].op = "Get"}

\* A writer is between its Lock and its Unlock.
Writing == \E g \in Callers :
               cpc[g] \in {"body", "return"} /\ call[g].op \in {"Set", "Clear"}

\* C14: Get returns (values, true) exactly when the key has an entry and
\* now < expiresAt, and (nil, false) for a key never set or with
\* now >= expiresAt.
C14_CacheValidity ==
    \A g \in Getting :
        LET k == call[g].key
            valid == k \in DOMAIN entries /\ ret[g].at < entries[k].ExpiresAt
        IN  /\ ret[g].found <=> valid
            /\ valid => ret[g].values = entries[k].Values
            /\ ~valid => ret[g].values = <<>>

\* What the code does at the instant of expiry: a Get that reads the clock at
\* exactly expiresAt is returning the values as a hit.
C14_HitAtExpiry ==
    \E g \in Getting :
        /\ call[g].key \in DOMAIN entries
        /\ ret[g].at = entries[call[g].key].ExpiresAt
        /\ ret[g].found

\* C15: Set(k, v) replaces the entry of k by v with expiry now + ttl; a Get(k)
\* before that TTL has elapsed returns (v, true), the values in the order
\* given, and one after it has elapsed returns (nil, false); so a Set on an
\* expired key makes it valid again, and what Get(k) returns depends on the
\* last Set of k alone, whatever was Set for other keys.
C15_CacheRoundTrip ==
    /\ \A g \in Callers :
          (cpc[g] = "return" /\ call[g].op = "Set") =>
              /\ call[g].key \in DOMAIN entries
              /\ entries[call[g].key] =
                    [Values |-> call[g].values,
                     ExpiresAt |-> lastSet[call[g].key].at + ttl]
    /\ \A g \in Getting :
          LET k == call[g].key
          IN  IF k \in DOMAIN lastSet
              THEN /\ ret[g].at < lastSet[k].at + ttl =>
                         (ret[g].found /\ ret[g].values = lastSet[k].values)
                   /\ ret[g].at > lastSet[k].at + ttl =>
                         (~ret[g].found /\ ret[g].values = <<>>)
              ELSE ~ret[g].found /\ ret[g].values = <<>>

\* C15 witness: with a TTL of one minute, a Set made when the clock had passed
\* two minutes is read back within its TTL, the values in the order given.
C15_Witness ==
    \E g \in Getting :
        /\ call[g].key = StoresKey
        /\ ttl = 1
        /\ StoresKey \in DOMAIN lastSet
        /\ lastSet[StoresKey].at >= 2
        /\ ret[g].at = lastSet[StoresKey].at
        /\ ret[g].found
        /\ ret[g].values = <<"b", "a">>

\* C16: concurrent Get, Set and Clear calls never deadlock (while a call is
\* in progress some call can take a step), a writer is alone in the critical
\* section, the map holds at most one entry per key, and once no writer is at
\* work the entry of a key is exactly what the Set that last took the lock
\* for it wrote: its values with its expiry.
C16_CacheThreadSafety ==
    /\ (\E g \in Callers : cpc[g] # "idle") => ENABLED CallStep
    /\ \A g, h \in Callers :
          (g # h /\ cpc[g] \in {"body", "return"} /\ cpc[h] \in {"body", "return"})
              => (call[g].op = "Get" /\ call[h].op = "Get")
    /\ DOMAIN entries \subseteq Keys
    /\ ~Writing =>
          /\ DOMAIN entries = DOMAIN lastSet
          /\ \A k \in DOMAIN entries :
                entries[k] = [Values |-> lastSet[k].values,
                              ExpiresAt |-> lastSet[k].at + ttl]

\* C16 witness: both callers have called Set for the same key with different
\* values; one holds the lock and has stored its entry while the other waits.
C16_Witness ==
    \E g, h \in Callers :
        /\ cpc[g] = "return" /\ call[g].op = "Set"
        /\ cpc[h] = "lock" /\ call[h].op = "Set"
        /\ call[g].key = call[h].key
        /\ call[g].values # call[h].values
        /\ entries[call[g].key].Values = call[g].values

(***************************************************************************)
(* Properties of the completer (checked under CompleterSpec).              *)
(***************************************************************************)
\* A lookup method is returning because lookups are disabled, or the client
\* could not be made, or the remote lookup failed.
Degraded ==
    /\ cmpc = "returning"
    /\ outcome \in {"disabled", "initFailed", "lookupFailed"}

\* C17: every lookup method (GetStoreNames, GetFileNames, GetDocumentNames,
\* GetModelNames) returns an empty sequence whenever lookups are disabled or
\* the client initialisation or the remote lookup fails; with lookups
\* disabled it returns without initialising the client.
C17_EmptyOnDegradation ==
    /\ Degraded => result = <<>>
    /\ ~enabled => (newClientCalls = 0 /\ ~clientInit)

\* C17 as amended: in those cases GetStoreNames, GetFileNames and
\* GetDocumentNames return an empty sequence and GetModelNames returns the
\* static default model list (gemini-2.5-flash, gemini-2.5-pro); with lookups
\* disabled no method initialises the client.
C17_GracefulDegradation ==
    /\ Degraded =>
          result = (IF method = "GetModelNames"
                    THEN << <<"g", "e", "m", "i", "n", "i", "-", "2", ".", "5",
                              "-", "f", "l", "a", "s", "h">>,
                            <<"g", "e", "m", "i", "n", "i", "-", "2", ".", "5",
                              "-", "p", "r", "o">> >>
                    ELSE <<>>)
    /\ ~enabled => (newClientCalls = 0 /\ ~clientInit)
    /\ (cmpc = "returning" /\ outcome = "disabled") => ~enabled

\* C17 witness: GetModelNames is returning its two defaults after the remote
\* lookup failed.
C17_Witness ==
    /\ Degraded
    /\ method = "GetModelNames"
    /\ outcome = "lookupFailed"
    /\ Len(result) = 2

(***************************************************************************)
(* Properties of the batch commands (checked under CommandSpec).           *)
(***************************************************************************)
\* C18: `file upload` and `store import-file` return a non-nil error exactly
\* when at least one item ended in Failed, whatever the output format (text
\* or json) and the quiet setting.
C18_BatchExitStatus ==
    cmdpc = "returned" =>
        (cmdErr # NoError <=> Cardinality(DOMAIN batchResult.Failed) > 0)

\* What the code does with json output: the summary document was written and
\* the command returned nil although an item is in Failed.
C18_JsonHidesFailure ==
    /\ cmdpc = "returned"
    /\ outputFormat = "json"
    /\ Cardinality(DOMAIN batchResult.Failed) > 0
    /\ cmdErr = NoError

(***************************************************************************)
(* Properties of GetOperation (checked under OperationSpec).               *)
(***************************************************************************)
\* C19: a name that does not begin with fileSearchStores/ is rejected with
\* the must-start-with error, and one that begins with it but does not hold
\* /operations/ with the must-contain error, in both cases before any remote
\* call; the prefix is tested first, so the empty name gets the prefix error;
\* a name that passes both tests is never rejected locally: its call ends
\* with the outcome of a remote call.
C19_OperationNameValidation ==
    LET prefixed == HasPrefix(operationName, StoreResourcePrefix)
        infixed == Contains(operationName, OperationResourcePrefix)
        rejections ==
            {f \in {"invalid operation name: must start with '%s'",
                    "invalid operation name: must contain '%s'"} :
                gopErr.format = f}
    IN  /\ ~prefixed =>
              /\ opCalls = <<>>
              /\ gopc = "returned" =>
                    /\ gopErr.format = "invalid operation name: must start with '%s'"
                    /\ gopErr.args = <<StoreResourcePrefix>>
                    /\ gopStatus = "none"
        /\ (prefixed /\ ~infixed) =>
              /\ opCalls = <<>>
              /\ gopc = "returned" =>
                    /\ gopErr.format = "invalid operation name: must contain '%s'"
                    /\ gopErr.args = <<OperationResourcePrefix>>
                    /\ gopStatus = "none"
        /\ (prefixed /\ infixed) =>
              /\ rejections = {}
              /\ gopc = "returned" => opCalls # <<>>

\* C19 witness: the empty name was rejected with the prefix error.
C19_Witness ==
    /\ gopc = "returned"
    /\ operationName = <<>>
    /\ gopErr.format = "invalid operation name: must start with '%s'"
    /\ opCalls = <<>>

\* The accepting case of C19 is reached too: a name in which the prefix and
\* the infix share their slash went on to a remote call.
C19_AcceptedReached ==
    /\ gopc = "returned"
    /\ operationName = StoreResourcePrefix \o Tail(OperationResourcePrefix)
                           \o <<"o", "p">>
    /\ opCalls # <<>>

(***************************************************************************)
(* Properties of the MCP server (checked under ServerSpec).                *)
(***************************************************************************)
ServerBuilt == spc = Len(ToolOrder) + 1

\* The enabledTools list holds name.
Listed(name) == name \in Range(enabledTools)

Setting == {g \in Callers : cpc[g] = "return" /\ call[g].op = "Set"}

\* C21: a cache asked for a ttl <= 0 has a ttl of exactly 5 minutes and one
\* asked for a ttl > 0 has that ttl, whether NewCache is called directly or
\* through getCompleter and NewCompleter; so the ttl is strictly positive and
\* the entry a Set has just stored expires strictly after the time of the Set:
\* a Get at that time finds it.
C21_TTLCoercion ==
    /\ givenTTL <= 0 => ttl = 5
    /\ givenTTL > 0 => ttl = givenTTL
    /\ ttl > 0
    /\ \A g \in Setting :
          LET k == call[g].key
          IN  /\ entries[k].ExpiresAt > lastSet[k].at
              /\ now = lastSet[k].at => GetResult(k).found

\* C21 witness: a cache asked for a negative ttl holds an entry that was set
\* a minute or more after construction and expires five minutes after it was
\* set.
C21_Witness ==
    /\ givenTTL < 0
    /\ \E g \in Setting :
          /\ lastSet[call[g].key].at >= 1
          /\ now = lastSet[call[g].key].at
          /\ entries[call[g].key].ExpiresAt = now + 5

(***************************************************************************)
(* Further properties of processBatch (checked under BatchSpec).           *)
(***************************************************************************)
\* C22: with an empty list processBatch returns at once: it is at its entry
\* or has returned, no slot was taken, no goroutine was started, OnProgress
\* was not invoked, and the result it returns has Succeeded = [], Failed = {}
\* and Total = 0.
C22_EmptyInput ==
    Len(files) = 0 =>
        /\ pc \in {"entry", "returned"}
        /\ inProgress = 0
        /\ wg = 0
        /\ fileIdx = 1
        /\ \A i \in DOMAIN wpc : wpc[i] = "none"
        /\ progressLog = <<>>
        /\ processedCount = 0
        /\ Succeeded = <<>>
        /\ Failed = EmptyFailed
        /\ Total = 0

\* C22 witness: processBatch has returned for an empty list although a
\* callback was supplied and the batch is not quiet.
C22_Witness ==
    /\ Len(files) = 0
    /\ Returned
    /\ OnProgress = "count"
    /\ ~Quiet

\* C23: the counter is incremented and the item recorded in one critical
\* section: whenever neither mutex is held the number of items recorded in
\* Succeeded and Failed equals processedCount, and while OnProgress runs with
\* count k at least k items are recorded.
C23_SharedStateDiscipline ==
    /\ (mu = 0 /\ processedMu = 0) => NumRecorded = processedCount
    /\ \A i \in InCallback : NumRecorded >= current[i]

\* What the code does: the callback of the only item of a batch runs with
\* count 1 while nothing is recorded yet and no mutex is held.
C23_CallbackBeforeRecord ==
    /\ Len(files) = 1
    /\ InCallback = {1}
    /\ current[1] = 1
    /\ mu = 0 /\ processedMu = 0
    /\ NumRecorded = 0

(***************************************************************************)
(* Further properties of GetOperation (checked under OperationSpec).       *)
(***************************************************************************)
\* GetOperation has returned after at least one remote call.
Polled == gopc = "returned" /\ opCalls # <<>>

\* What GetOperation returns for the outcome c of its last remote call: the
\* status of the kind of that call, or the error of that call.
ReturnsOutcomeOf(c) ==
    IF c.ok
    THEN gopStatus = c.call /\ gopErr = NilError
    ELSE gopStatus = "none" /\ gopErr = c.err

\* C24: with a declared kind GetOperation issues one call, of that kind, and
\* returns its outcome; with no declared kind it issues the import call
\* first and returns its status if it succeeds, and if it fails, with
\* whatever error, issues one upload call and returns the status or the
\* error of that call, not the error of the import call; it never issues
\* more than two calls.
C24_KindSelection ==
    /\ Len(opCalls) <= 2
    /\ operationType \in {"import", "upload"} =>
          /\ Len(opCalls) <= 1
          /\ \A c \in Range(opCalls) : c.call = operationType
          /\ Polled => ReturnsOutcomeOf(opCalls[1])
    /\ operationType \notin {"import", "upload"} =>
          /\ opCalls # <<>> => opCalls[1].call = "import"
          /\ Len(opCalls) = 2 => (~opCalls[1].ok /\ opCalls[2].call = "upload")
          /\ Polled =>
                IF opCalls[1].ok
                THEN Len(opCalls) = 1 /\ ReturnsOutcomeOf(opCalls[1])
                ELSE Len(opCalls) = 2 /\ ReturnsOutcomeOf(opCalls[2])
    /\ (gopc = "returned" /\ HasStorePrefix(operationName)
                          /\ HasOperationsInfix(operationName)) => opCalls # <<>>

\* C24 witness: with no declared kind the import call failed with one error
\* and the upload call with another, which is the error returned.
C24_Witness ==
    /\ Polled
    /\ operationType = ""
    /\ Len(opCalls) = 2
    /\ opCalls[1].err # opCalls[2].err
    /\ gopErr = opCalls[2].err
    /\ gopStatus = "none"

\* The declared case is reached too: a declared import whose call failed
\* returned that error after the one call.
C24_DeclaredFailureReached ==
    /\ Polled
    /\ operationType = "import"
    /\ Len(opCalls) = 1
    /\ ~opCalls[1].ok
    /\ gopErr = opCalls[1].err

(***************************************************************************)
(* Further properties of the resolvers (checked under ResolverSpec).       *)
(***************************************************************************)
\* The remote calls that list stores and those that list documents.
StoreCalls == {k \in DOMAIN remoteCalls : remoteCalls[k].listing = "stores"}
DocumentCalls == {k \in DOMAIN remoteCalls : remoteCalls[k].listing = "documents"}

\* The store the service's listing gives for the store reference: the
\* reference itself if it has the resource shape, else the Name of the
\* first store with that display name, <<>> if there is none.
StoreOfReference ==
    LET all == Flatten(remoteStores)
        hits == {i \in DOMAIN all : all[i].DisplayName = storeNameOrID}
    IN  IF HasPrefix(storeNameOrID, StoreResourcePrefix) THEN storeNameOrID
        ELSE IF hits = {} THEN <<>>
        ELSE all[CHOOSE i \in hits : \A j \in hits : i <= j].Name

\* The documents the service holds for store s.
DocumentsOf(s) ==
    IF s \in DOMAIN remoteDocuments THEN Flatten(remoteDocuments[s]) ELSE <<>>

\* C25: ResolveDocumentName, given a document reference without
\* "/documents/", resolves the store reference first and lists documents
\* only under the store that resolution gave; if the resolution fails, by a
\* failed listing of the stores or by finding no store, its error is returned
\* and no documents are listed; and the name returned is that of a document
\* of that store with the display name asked for, never of a document of
\* another store.
C25_TwoLevelResolution ==
    (resolveKind = "document" /\ ~Contains(nameOrID, DocumentResourcePrefix)) =>
        /\ \A j \in DocumentCalls :
              /\ \A k \in StoreCalls : k < j /\ remoteCalls[k].ok
              /\ StoreOfReference # <<>>
              /\ remoteCalls[j].parent = StoreOfReference
              /\ ~HasPrefix(storeNameOrID, StoreResourcePrefix) => StoreCalls # {}
        /\ (ResolverDone /\ \E k \in StoreCalls : ~remoteCalls[k].ok) =>
              /\ DocumentCalls = {}
              /\ resolved = <<>>
              /\ resolveErr.format \in TransportErrors
        /\ (ResolverDone /\ StoreOfReference = <<>>
                         /\ \A k \in StoreCalls : remoteCalls[k].ok) =>
              /\ DocumentCalls = {}
              /\ resolved = <<>>
              /\ resolveErr = [format |-> "store not found: %s",
                               args |-> <<storeNameOrID>>]
        /\ (ResolverDone /\ resolved # <<>>) =>
              /\ resolveErr = NilError
              /\ \E i \in DOMAIN DocumentsOf(StoreOfReference) :
                    /\ DocumentsOf(StoreOfReference)[i].Name = resolved
                    /\ DocumentsOf(StoreOfReference)[i].DisplayName = nameOrID
        /\ (ResolverDone /\ AllCallsSucceeded /\ StoreOfReference # <<>>
                         /\ \A i \in DOMAIN DocumentsOf(StoreOfReference) :
                               DocumentsOf(StoreOfReference)[i].DisplayName # nameOrID) =>
              /\ resolved = <<>>
              /\ resolveErr = [format |-> "document not found in store %s: %s",
                               args |-> <<StoreOfReference, nameOrID>>]

\* C25 witness: the store reference is a display name that resolved to the
\* first store; the document asked for exists in the second store only, and
\* the call returned "document not found" for the first store after listing
\* the stores and then the documents of the first store.
C25_Witness ==
    /\ ResolverDone
    /\ resolveKind = "document"
    /\ ~HasPrefix(storeNameOrID, StoreResourcePrefix)
    /\ StoreOfReference = StoreName(1)
    /\ AllCallsSucceeded
    /\ StoreCalls # {} /\ DocumentCalls # {}
    /\ \E i \in DOMAIN DocumentsOf(StoreName(2)) :
          DocumentsOf(StoreName(2))[i].DisplayName = nameOrID
    /\ resolved = <<>>
    /\ resolveErr.format = "document not found in store %s: %s"

\* The failing store resolution is reached too: no store has the display
\* name given, and the call returned "store not found" without listing
\* documents.
C25_StoreNotFoundReached ==
    /\ ResolverDone
    /\ resolveKind = "document"
    /\ ~Contains(nameOrID, DocumentResourcePrefix)
    /\ StoreOfReference = <<>>
    /\ AllCallsSucceeded
    /\ resolveErr.format = "store not found: %s"

(***************************************************************************)
(* Further properties of the polling loops (checked under PollerSpec).     *)
(***************************************************************************)
\* What the answers R of the service call for, whatever opts.Quiet is: from
\* answer k on, holding snapshot cur, the call has returned (with which
\* error) or waits for a further answer, and how many answers it has used.
RECURSIVE PollOutcome(_, _, _)
PollOutcome(R, k, cur) ==
    IF cur.Done THEN [returned |-> TRUE, err |-> NoError, used |-> k - 1]
    ELSE IF k > Len(R) THEN [returned |-> FALSE, err |-> NoError, used |-> k - 1]
    ELSE IF R[k].err # NoError THEN [returned |-> TRUE, err |-> R[k].err, used |-> k]
    ELSE PollOutcome(R, k + 1, R[k].op)

CallOutcome(R) ==
    IF R = <<>> THEN [returned |-> FALSE, err |-> NoError, used |-> 0]
    ELSE IF R[1].err # NoError THEN [returned |-> TRUE, err |-> R[1].err, used |-> 1]
    ELSE PollOutcome(R, 2, R[1].op)

\* C26: the remote calls UploadFile / ImportFile issue and what they return
\* are determined by the answers of the service alone, so they are the same
\* with Quiet true and with Quiet false: the call issues the initiating call
\* and then one poll per answer that leaves the operation not done, never one
\* more, returns exactly when the answers call for it and with the error they
\* call for; Quiet decides only whether anything is printed.
C26_QuietIndependence ==
    LET o == CallOutcome(responses)
    IN  /\ Len(responses) = (IF ppc = "start" THEN 0 ELSE 1 + polls)
        /\ o.used = Len(responses)
        /\ o.returned => ppc \in {"loop", "returned"}
        /\ ~o.returned => ppc \in {"start", "loop", "sleep"}
        /\ ppc = "returned" => retErr = o.err
        /\ pollerQuiet => printed = 0
        /\ (~pollerQuiet /\ ppc # "start") => printed > 0

\* C26 witness: a quiet import returned the error of its second poll, having
\* printed nothing.
C26_Witness ==
    /\ pollerQuiet
    /\ opKind = "import"
    /\ ppc = "returned"
    /\ polls = 2
    /\ retErr = "timeout"
    /\ printed = 0

\* The same answers with Quiet false: the same calls and the same error, with
\* progress printed.
C26_LoudReached ==
    /\ ~pollerQuiet
    /\ opKind = "import"
    /\ ppc = "returned"
    /\ polls = 2
    /\ retErr = "timeout"
    /\ printed > 0

(***************************************************************************)
(* Further properties of the completer (checked under CompleterSpec).      *)
(***************************************************************************)
\* One of the three listing lookups is running.
Listing == method \in {"GetStoreNames", "GetFileNames", "GetDocumentNames"}

\* The key of the running lookup: stores, files, or docs: followed by the
\* store reference as the caller gave it.
LookupKey ==
    IF method = "GetStoreNames" THEN <<"s", "t", "o", "r", "e", "s">>
    ELSE IF method = "GetFileNames" THEN <<"f", "i", "l", "e", "s">>
    ELSE <<"d", "o", "c", "s", ":">> \o storeRef

\* The cache holds an entry for key k that has not expired.
Unexpired(k) == k \in DOMAIN entries /\ now < entries[k].ExpiresAt

\* What a step of a listing lookup does to the cache: a lookup that finds an
\* unexpired entry for its key returns its values at once, making no client
\* and no remote call; a remote call is made only with no entry or an
\* expired one for the key; the names it yields are stored under that key and
\* the other slots are left alone; a step that fetches nothing leaves the
\* cache as it is.
MemoizedStep ==
    Listing =>
        /\ (cmpc = "entry" /\ Unexpired(LookupKey)) =>
              /\ cmpc' = "returning"
              /\ result' = entries[LookupKey].Values
              /\ UNCHANGED <<clientInit, newClientCalls, lookups, entries>>
        /\ lookups' # lookups =>
              /\ lookups' = lookups + 1
              /\ ~Unexpired(LookupKey)
              /\ IF outcome' = "fetched"
                 THEN entries' =
                          [k \in DOMAIN entries \cup {LookupKey} |->
                              IF k = LookupKey
                              THEN [Values |-> result', ExpiresAt |-> now + ttl]
                              ELSE entries[k]]
                 ELSE entries' = entries
        /\ lookups' = lookups => entries' = entries

\* C27: a listing lookup whose key (stores, files, docs:<store reference as
\* given>) has an unexpired entry returns the cached values without making
\* the client or any remote call; a remote call is made only on a miss or an
\* expired entry and its result is stored under that same key; so two
\* spellings of one store, which give two keys, use two slots.
C27_Memoization == [][MemoizedStep]_vars

\* C27 witness: the documents of a store asked for by display name are
\* cached and not expired; the lookup by resource name missed the cache,
\* fetched, and now both slots are held.
C27_Witness ==
    /\ cmpc = "returning"
    /\ method = "GetDocumentNames"
    /\ storeRef = StoreName(1)
    /\ outcome = "fetched"
    /\ lookups = 2
    /\ Unexpired(<<"d", "o", "c", "s", ":">> \o <<"d", "o", "c", "s">>)
    /\ Unexpired(<<"d", "o", "c", "s", ":">> \o StoreName(1))

\* The hit is reached too: a second lookup of the stores, a minute after the
\* first, is returning the cached names after one remote call in all.
C27_CachedHitReached ==
    /\ cmpc = "returning"
    /\ method = "GetStoreNames"
    /\ outcome = "cached"
    /\ now = 1
    /\ completions = 2
    /\ lookups = 1
    /\ newClientCalls = 1
    /\ result = << <<"b">>, <<"a">> >>

(***************************************************************************)
(* Properties of the locks (checked under LockingSpec).                    *)
(***************************************************************************)
\* Nobody holds the mutex of the cache.
CacheMuFree == cacheMu = [writer |-> 0, readers |-> {}]

\* C28: no lock is held across a blocking call.  A goroutine of processBatch
\* holds neither mu nor processedMu while its perItemOp or its OnProgress
\* call runs; it holds them only between its Lock and its Unlock around the
\* counter and around the result.  The completer does not hold the mutex of
\* the cache while its remote lookup is in flight: the Get before it has
\* released the mutex and the Set after it has not yet taken it.
C28_NoLockAcrossBlockingCall ==
    /\ \A i \in Workers :
          /\ wpc[i] \in {"processing", "inCallback"} =>
                (mu # i /\ processedMu # i)
          /\ mu = i => wpc[i] \in {"lockProcessedMu", "unlockMu", "unlockResult"}
          /\ processedMu = i => wpc[i] \in {"unlockMu", "unlockProcessedMu"}
    /\ mu \in Workers \cup {0}
    /\ processedMu \in Workers \cup {0}
    /\ cmpc = "lookup" => CacheMuFree

\* C28 witness: the completer's remote lookup is in flight after a Get that
\* missed, in a cache an earlier lookup has Set an entry in.
C28_Witness ==
    /\ cmpc = "lookup"
    /\ method = "GetFileNames"
    /\ StoresKey \in DOMAIN entries
    /\ lookups = 1
    /\ CacheMuFree

\* The batch half is reached too: one goroutine is in its OnProgress call
\* while the other is in its perItemOp, and no mutex is held.
C28_BlockingCallsReached ==
    /\ InCallback = {1}
    /\ InFlight = {2}
    /\ mu = 0
    /\ processedMu = 0

(***************************************************************************)
(* Termination of processBatch (checked under BatchFairSpec).              *)
(***************************************************************************)
\* processBatch has returned, with every slot given back, every goroutine
\* finished and no mutex held.
ReturnedClean ==
    /\ pc = "returned"
    /\ inProgress = 0
    /\ wg = 0
    /\ mu = 0
    /\ processedMu = 0
    /\ \A i \in Workers : wpc[i] = "finished"

\* C29: processBatch is free of deadlock and terminates.  As long as it has
\* not returned, the dispatcher or some goroutine can take a step (the two
\* mutexes and the semaphore never form a wait cycle), and under a scheduler
\* that keeps running what can run it returns, for every batch, every
\* concurrency and every interleaving, with every slot released.
C29_DeadlockFreedom ==
    /\ [](pc # "returned" => ENABLED BatchNext)
    /\ <>ReturnedClean

\* C29 witness: the nested acquisition is contended: one goroutine holds
\* processedMu alone, having released mu, while another holds mu and waits
\* for processedMu; the dispatcher is in wg.Wait().
C29_Witness ==
    /\ pc = "wait"
    /\ \E i, j \in Workers :
          /\ processedMu = i
          /\ wpc[i] = "unlockProcessedMu"
          /\ mu = j
          /\ wpc[j] = "lockProcessedMu"

\* The semaphore is contended as well: the dispatcher waits for a slot while
\* the goroutine that holds the only one is in its second critical section.
C29_DispatcherBlocked ==
    /\ pc = "acquire"
    /\ ~SlotAvailable
    /\ \E i \in Workers :
          /\ mu = i
          /\ wpc[i] = "unlockResult"

(***************************************************************************)
(* Termination of the polling loop (checked under UploadBatchSpec).        *)
(***************************************************************************)
\* Every answer so far is a snapshot that is not done, without an error.
PendingOnly(R) ==
    \A k \in DOMAIN R : R[k].err = NoError /\ ~R[k].op.Done

\* Some answer was an error or a snapshot that reports done.
Decisive(R) == ~PendingOnly(R)

\* C30: the polling loop ends on a done snapshot or on an error and on
\* nothing else.  A call that has returned has received an error or a done
\* snapshot; a call all of whose answers were pending snapshots is still
\* polling, however many polls it has made (every answer was followed by
\* another poll: there is no local bound), and the batch it is an item of has
\* not returned; a call that has received an error or a done snapshot makes
\* no further poll and does return.
C30_PollerTermination ==
    /\ [](ppc = "returned" => Decisive(responses))
    /\ []((ppc \in {"loop", "sleep"} /\ PendingOnly(responses)) =>
             /\ Len(responses) = polls + 1
             /\ ~op.Done
             /\ pc # "returned"
             /\ \E i \in Workers : wpc[i] = "processing")
    /\ []((ppc # "start" /\ Decisive(responses)) =>
             ppc \in {"loop", "returned", "idle"})
    /\ [](pc = "returned" => (ppc = "idle" /\ Decisive(responses)))
    /\ (ppc = "loop" /\ Decisive(responses)) ~> (ppc = "returned")

\* C30 witness: the operation has stayed pending through the initiating call
\* and MaxPolls polls, each of which succeeded: the call is asleep before its
\* next poll and the batch waits in wg.Wait() for its goroutine.
C30_Witness ==
    /\ ppc = "sleep"
    /\ polls = MaxPolls
    /\ PendingOnly(responses)
    /\ pc = "wait"
    /\ wg = 1

\* The other way out: a poll has failed after pending snapshots, the call has
\* returned its error and the batch has returned with the item failed.
C30_ReturnedOnPollError ==
    /\ pc = "returned"
    /\ polls >= 2
    /\ opErr # NoError
    /\ DOMAIN Failed # {}

=============================================================================
